---- MODULE Spec2Model ----
(***************************************************************************)
(* State-machine model of the RPN logic compiler and evaluator of          *)
(* src/rpnlogic.c: rpn_parse builds a linked chain of nodes on a heap,     *)
(* rpn_run walks it over a value stack, the stateful operators keep a      *)
(* per-node cookie and register one-shot timers.                           *)
(*                                                                         *)
(* Doubles are modelled as exact extended rationals [n, d]: d > 0 and      *)
(* gcd(n, d) = 1 for a finite value, d = 0 for +Inf (n = 1), -Inf (n = -1) *)
(* and NaN (n = 0).  Rounding and the sign of zero are not modelled.       *)
(* C strings are sequences of one-character strings.                       *)
(***************************************************************************)
EXTENDS Integers, Sequences, FiniteSets, TLC

(***************************************************************************)
(* Bounds of the model                                                     *)
(***************************************************************************)
\* longest token sequence of a generated arithmetic source
MaxLen == 3
\* most operands put before the operator in a generated operator source
MaxArgs == 3
\* most evaluation passes of a hand-written source
MaxPass == 5
\* most evaluation passes of a generated source
MaxRuns == 2
\* number of addresses malloc can return for a node
MaxNodes == 10
\* the most elements pushed on the stack when it is driven directly
MaxDepth == 33

(***************************************************************************)
(* double                                                                  *)
(***************************************************************************)
Abs(i) == IF i < 0 THEN -i ELSE i

Sgn(i) == IF i < 0 THEN -1 ELSE IF i > 0 THEN 1 ELSE 0

RECURSIVE GCD(_, _)
GCD(a, b) == IF b = 0 THEN a ELSE GCD(b, a % b)

\* the double n/d, also for d <= 0
Norm(n, d) ==
    IF d = 0 THEN [n |-> Sgn(n), d |-> 0]
    ELSE LET g == GCD(Abs(n), Abs(d))
             s == IF d < 0 THEN -1 ELSE 1
         IN  [n |-> (s * n) \div g, d |-> (s * d) \div g]

Num(i) == [n |-> i, d |-> 1]
PInf == [n |-> 1, d |-> 0]
NInf == [n |-> -1, d |-> 0]
NaN == [n |-> 0, d |-> 0]

IsFinite(x) == x.d # 0
IsInf(x) == x.d = 0 /\ x.n # 0

RNeg(a) == [n |-> -a.n, d |-> a.d]

RAdd(a, b) ==
    IF a = NaN \/ b = NaN THEN NaN
    ELSE IF IsInf(a) THEN (IF IsInf(b) /\ b # a THEN NaN ELSE a)
    ELSE IF IsInf(b) THEN b
    ELSE Norm(a.n * b.d + b.n * a.d, a.d * b.d)

RSub(a, b) == RAdd(a, RNeg(b))

RMul(a, b) == Norm(a.n * b.n, a.d * b.d)

RDiv(a, b) ==
    LET s == IF b.n < 0 THEN -1 ELSE 1
    IN  Norm(a.n * b.d * s, a.d * b.n * s)

\* a < b on doubles: every comparison with NaN is false
RLt(a, b) ==
    IF a = NaN \/ b = NaN \/ a = b THEN FALSE
    ELSE IF a = NInf \/ b = PInf THEN TRUE
    ELSE IF a = PInf \/ b = NInf THEN FALSE
    ELSE a.n * b.d < b.n * a.d

\* a <= b on doubles
RLe(a, b) == a # NaN /\ b # NaN /\ (a = b \/ RLt(a, b))

RECURSIVE RPowNat(_, _)
RPowNat(a, k) == IF k = 0 THEN Num(1) ELSE RMul(a, RPowNat(a, k - 1))

\* pow(a, b); only an integral exponent or base 1 gives a value the model
\* can represent, the sources of the model keep to these
RPow(a, b) ==
    CASE a = Num(1) -> Num(1)
      [] a # Num(1) /\ IsFinite(b) /\ b.d = 1 /\ b.n >= 0 -> RPowNat(a, b.n)
      [] a # Num(1) /\ IsFinite(b) /\ b.d = 1 /\ b.n < 0 ->
             RDiv(Num(1), RPowNat(a, -b.n))

INT_MAX == 2147483647

\* (int)x, truncation toward zero; the conversion of a value that is not
\* finite or not in the range of int is undefined and has no case here
CastInt(x) ==
    CASE IsFinite(x) /\ x.n >= 0 /\ x.n \div x.d <= INT_MAX -> x.n \div x.d
      [] IsFinite(x) /\ x.n < 0 /\ (-x.n) \div x.d <= INT_MAX -> -((-x.n) \div x.d)

\* a C truth value as int
Bool(b) == IF b THEN 1 ELSE 0

(***************************************************************************)
(* int bit operations, two's complement                                    *)
(***************************************************************************)
RECURSIVE AndN(_, _)
AndN(a, b) ==
    IF a = 0 \/ b = 0 THEN 0
    ELSE (a % 2) * (b % 2) + 2 * AndN(a \div 2, b \div 2)

OrN(a, b) == a + b - AndN(a, b)
XorN(a, b) == a + b - 2 * AndN(a, b)

\* ~a
BitInv(a) == -a - 1

\* a & b
BitAnd(a, b) ==
    IF a >= 0 /\ b >= 0 THEN AndN(a, b)
    ELSE IF a >= 0 THEN a - AndN(a, BitInv(b))
    ELSE IF b >= 0 THEN b - AndN(b, BitInv(a))
    ELSE BitInv(OrN(BitInv(a), BitInv(b)))

\* a | b
BitOr(a, b) == BitInv(BitAnd(BitInv(a), BitInv(b)))

\* a ^ b
BitXor(a, b) == BitOr(a, b) - BitAnd(a, b)

(***************************************************************************)
(* C strings                                                               *)
(***************************************************************************)
digits == {"0", "1", "2", "3", "4", "5", "6", "7", "8", "9"}

DigitVal(c) ==
    CASE c = "0" -> 0 [] c = "1" -> 1 [] c = "2" -> 2 [] c = "3" -> 3
      [] c = "4" -> 4 [] c = "5" -> 5 [] c = "6" -> 6 [] c = "7" -> 7
      [] c = "8" -> 8 [] c = "9" -> 9

\* the characters isspace() accepts
WhiteSpace == {" ", "\t", "\n", "\r"}

\* s without its first k characters
Drop(s, k) == SubSeq(s, k + 1, Len(s))

\* number of leading characters of s that are in set
RECURSIVE Span(_, _)
Span(s, set) ==
    IF s # <<>> /\ Head(s) \in set THEN 1 + Span(Tail(s), set) ELSE 0

\* number of leading characters of s that are not in set
RECURSIVE CSpan(_, _)
CSpan(s, set) ==
    IF s # <<>> /\ Head(s) \notin set THEN 1 + CSpan(Tail(s), set) ELSE 0

\* value of a string of decimal digits
RECURSIVE DecVal(_)
DecVal(s) ==
    IF s = <<>> THEN 0
    ELSE 10 * DecVal(SubSeq(s, 1, Len(s) - 1)) + DigitVal(s[Len(s)])

RECURSIVE Pow10(_)
Pow10(k) == IF k = 0 THEN 1 ELSE 10 * Pow10(k - 1)

\* strtod(s, &endp) for decimal notation without exponent: value is the
\* converted double and endp the number of characters of s before *endp;
\* when nothing converts the value is 0 and endp is s itself.
\* s2 is s after white space and sign, ni and nf count the digits before
\* and after the point, dot is 1 when the point is taken
StrtodValue(s, s2, neg, ni, nf, dot) ==
    IF ni + nf = 0 THEN [value |-> Num(0), endp |-> 0]
    ELSE [value |-> RMul(Num(IF neg THEN -1 ELSE 1),
                         RAdd(Num(DecVal(SubSeq(s2, 1, ni))),
                              Norm(DecVal(SubSeq(s2, ni + 2, ni + 1 + nf)), Pow10(nf)))),
          endp |-> (Len(s) - Len(s2)) + ni + dot + nf]

StrtodFraction(s, s2, neg, ni) ==
    IF ni < Len(s2) /\ s2[ni + 1] = "."
    THEN StrtodValue(s, s2, neg, ni, Span(Drop(s2, ni + 1), digits), 1)
    ELSE StrtodValue(s, s2, neg, ni, 0, 0)

StrtodSign(s, s1) ==
    IF s1 # <<>> /\ Head(s1) \in {"+", "-"}
    THEN StrtodFraction(s, Tail(s1), Head(s1) = "-", Span(Tail(s1), digits))
    ELSE StrtodFraction(s, s1, FALSE, Span(s1, digits))

strtod(s) == StrtodSign(s, Drop(s, Span(s, WhiteSpace)))

\* the tokens strtok(s, " \t") yields, in order; s1 is s after the
\* leading delimiters
RECURSIVE strtok(_)
NextToken(s1, k) ==
    IF s1 = <<>> THEN <<>>
    ELSE <<SubSeq(s1, 1, k)>> \o strtok(Drop(s1, k))

StrtokFrom(s1) == NextToken(s1, CSpan(s1, {" ", "\t"}))

strtok(s) == StrtokFrom(Drop(s, Span(s, {" ", "\t"})))

\* index of the last occurrence of c in s, 0 when there is none
RECURSIVE strrchr(_, _)
strrchr(s, c) ==
    IF s = <<>> THEN 0
    ELSE IF s[Len(s)] = c THEN Len(s)
    ELSE strrchr(SubSeq(s, 1, Len(s) - 1), c)

(***************************************************************************)
(* nodes and the heap                                                      *)
(***************************************************************************)
NULL == 0

\* addresses malloc can return for a node
Addrs == 1 .. MaxNodes

\* an absent C string is <<>>, a present one is <<string>>
NoStr == <<>>

\* rpn_create: a zeroed node at a free address
ZeroNode ==
    [run |-> "", value |-> Num(0), topic |-> NoStr, options |-> NoStr,
     cookie |-> 0, dat |-> NULL, next |-> NULL]

malloc(h) == CHOOSE a \in Addrs \ DOMAIN h : \A b \in Addrs \ DOMAIN h : a <= b

CreateAt(h, a) ==
    [rpn |-> a, heap |-> [x \in DOMAIN h \cup {a} |-> IF x = a THEN ZeroNode ELSE h[x]]]

rpn_create(h) == CreateAt(h, malloc(h))

rpn_free(h, rpn) == [x \in DOMAIN h \ {rpn} |-> h[x]]

\* frees the first node only
rpn_free_chain_head(h, rpn) ==
    IF rpn = NULL THEN h ELSE rpn_free(h, rpn)

RECURSIVE rpn_free_chain(_, _)
rpn_free_chain(h, rpn) ==
    IF rpn = NULL THEN h
    ELSE rpn_free_chain(rpn_free(h, rpn), h[rpn].next)

(***************************************************************************)
(* parser                                                                  *)
(***************************************************************************)
lookups == <<
    [str |-> <<"+">>, run |-> "rpn_do_plus"],
    [str |-> <<"-">>, run |-> "rpn_do_minus"],
    [str |-> <<"*">>, run |-> "rpn_do_mul"],
    [str |-> <<"/">>, run |-> "rpn_do_div"],
    [str |-> <<"*", "*">>, run |-> "rpn_do_pow"],
    [str |-> <<"&">>, run |-> "rpn_do_bitand"],
    [str |-> <<"|">>, run |-> "rpn_do_bitor"],
    [str |-> <<"^">>, run |-> "rpn_do_bitxor"],
    [str |-> <<"~">>, run |-> "rpn_do_bitinv"],
    [str |-> <<"&", "&">>, run |-> "rpn_do_booland"],
    [str |-> <<"|", "|">>, run |-> "rpn_do_boolor"],
    [str |-> <<"!">>, run |-> "rpn_do_boolnot"],
    [str |-> <<"<">>, run |-> "rpn_do_lt"],
    [str |-> <<">">>, run |-> "rpn_do_gt"],
    [str |-> <<"d", "u", "p">>, run |-> "rpn_do_dup"],
    [str |-> <<"s", "w", "a", "p">>, run |-> "rpn_do_swap"],
    [str |-> <<"l", "i", "m", "i", "t">>, run |-> "rpn_do_limit"],
    [str |-> <<"i", "n", "r", "a", "n", "g", "e">>, run |-> "rpn_do_inrange"],
    [str |-> <<"o", "n", "d", "e", "l", "a", "y">>, run |-> "rpn_do_ondelay"],
    [str |-> <<"o", "f", "f", "d", "e", "l", "a", "y">>, run |-> "rpn_do_offdelay"],
    [str |-> <<"p", "u", "l", "s", "e">>, run |-> "rpn_do_pulse"],
    [str |-> <<"e", "d", "g", "e">>, run |-> "rpn_do_edge"],
    [str |-> <<"r", "i", "s", "i", "n", "g">>, run |-> "rpn_do_rising"],
    [str |-> <<"f", "a", "l", "l", "i", "n", "g">>, run |-> "rpn_do_falling"],
    [str |-> <<"c", "h", "a", "n", "g", "e", "d">>, run |-> "rpn_do_edge"],
    [str |-> <<"p", "u", "s", "h", "e", "d">>, run |-> "rpn_do_rising"],
    [str |-> <<"t", "i", "m", "e", "o", "f", "d", "a", "y">>, run |-> "rpn_do_timeofday"],
    [str |-> <<"d", "a", "y", "o", "f", "w", "e", "e", "k">>, run |-> "rpn_do_dayofweek"]
>>

\* the index of the first entry of table for tok, 0 when there is none
LookupIn(table, tok) ==
    IF \E i \in 1 .. Len(table) : table[i].str = tok
    THEN CHOOSE i \in 1 .. Len(table) :
             /\ table[i].str = tok
             /\ \A j \in 1 .. (i - 1) : table[j].str # tok
    ELSE 0

do_lookup(tok) == LookupIn(lookups, tok)

\* takes every token that starts with a sign for a number
IsNumTok_anysign(tok) ==
    \/ tok[1] \in digits
    \/ tok[1] \in {"+", "-"}

\* strchr(digits, *tok) || (tok[1] && strchr("+-", *tok) && strchr(digits, tok[1]))
IsNumTok(tok) ==
    \/ tok[1] \in digits
    \/ Len(tok) >= 2 /\ tok[1] \in {"+", "-"} /\ tok[2] \in digits

\* tok[0] == '$' && tok[1] == '{' && tok[strlen(tok)-1] == '}'
IsEnvTok(tok) ==
    Len(tok) >= 2 /\ tok[1] = "$" /\ tok[2] = "{" /\ tok[Len(tok)] = "}"

\* the value of a numeric token: a number, then at most one part after a
\* character of ":h'" and at most one part after a character of ":m\"";
\* value is the sum so far and endp the text not yet converted
\* divides the part after the second separator by 60
ParseSeconds_min(value, endp) ==
    IF endp # <<>> /\ Head(endp) \in {":", "m", "\""}
    THEN RAdd(value, RDiv(strtod(Tail(endp)).value, Num(60)))
    ELSE value

ParseSeconds(value, endp) ==
    IF endp # <<>> /\ Head(endp) \in {":", "m", "\""}
    THEN RAdd(value, RDiv(strtod(Tail(endp)).value, Num(3600)))
    ELSE value

AddMinutes(value, s, r) ==
    ParseSeconds(RAdd(value, RDiv(r.value, Num(60))), Drop(s, r.endp))

ParseMinutes(value, endp) ==
    IF endp # <<>> /\ Head(endp) \in {":", "h", "'"}
    THEN AddMinutes(value, Tail(endp), strtod(Tail(endp)))
    ELSE ParseSeconds(value, endp)

ParseNumber(tok, r) == ParseMinutes(r.value, Drop(tok, r.endp))

ParseValue(tok) == ParseNumber(tok, strtod(tok))

\* topic and options of a ${...} token; body is the text between the
\* braces and comma the place of its last comma
SplitTopic(body, comma) ==
    IF comma = 0 THEN [topic |-> <<body>>, options |-> NoStr]
    ELSE [topic |-> <<SubSeq(body, 1, comma - 1)>>,
          options |-> <<Drop(body, comma)>>]

TopicOf(body) == SplitTopic(body, strrchr(body, ","))

ParseTopic(tok) == TopicOf(SubSeq(tok, 3, Len(tok) - 1))

ConstNode(value) == [ZeroNode EXCEPT !.run = "rpn_do_const", !.value = value]

EnvNode(t) ==
    [ZeroNode EXCEPT !.run = "rpn_do_env", !.topic = t.topic, !.options = t.options]

RunNode(run) == [ZeroNode EXCEPT !.run = run]

\* the token loop of rpn_parse from token i on; root and last are the
\* first and the last node of the chain built so far
RECURSIVE ParseLoop(_, _, _, _, _, _)

\* stores the owner in the first node of the chain only
LinkNode_first(toks, i, dat, c, root, last, node) ==
    ParseLoop(toks, i + 1, dat,
              [x \in DOMAIN c.heap |->
                  IF x = c.rpn
                  THEN IF root = NULL THEN [node EXCEPT !.dat = dat] ELSE node
                  ELSE IF x = last THEN [c.heap[x] EXCEPT !.next = c.rpn]
                  ELSE c.heap[x]],
              IF root = NULL THEN c.rpn ELSE root, c.rpn)

\* the end of the loop body: the new node c.rpn gets the owner and is linked
LinkNode(toks, i, dat, c, root, last, node) ==
    ParseLoop(toks, i + 1, dat,
              [x \in DOMAIN c.heap |->
                  IF x = c.rpn THEN [node EXCEPT !.dat = dat]
                  ELSE IF x = last THEN [c.heap[x] EXCEPT !.next = c.rpn]
                  ELSE c.heap[x]],
              IF root = NULL THEN c.rpn ELSE root, c.rpn)

NewNode(toks, i, dat, h, root, last, node) ==
    LinkNode(toks, i, dat, rpn_create(h), root, last, node)

\* an unknown token ends the loop with the chain built so far
UnknownToken_keep(h, root) == [root |-> root, heap |-> h]

\* an unknown token frees the chain and ends the loop
UnknownToken(h, root) ==
    [root |-> NULL, heap |-> IF root # NULL THEN rpn_free_chain(h, root) ELSE h]

ParseKeyword(toks, i, dat, h, root, last, lookup) ==
    IF lookup # 0
    THEN NewNode(toks, i, dat, h, root, last, RunNode(lookups[lookup].run))
    ELSE UnknownToken(h, root)

ParseToken(toks, i, dat, h, root, last, tok) ==
    IF IsNumTok(tok)
    THEN NewNode(toks, i, dat, h, root, last, ConstNode(ParseValue(tok)))
    ELSE IF IsEnvTok(tok)
    THEN NewNode(toks, i, dat, h, root, last, EnvNode(ParseTopic(tok)))
    ELSE ParseKeyword(toks, i, dat, h, root, last, do_lookup(tok))

ParseLoop(toks, i, dat, h, root, last) ==
    IF i > Len(toks) THEN [root |-> root, heap |-> h]
    ELSE ParseToken(toks, i, dat, h, root, last, toks[i])

rpn_parse(h, cstr, dat) == ParseLoop(strtok(cstr), 1, dat, h, NULL, NULL)

(***************************************************************************)
(* stack and operators.  An operator takes the machine m, a record of the  *)
(* stack st, the heap and the pending timers, and the address me of its    *)
(* node; it gives its return code and the machine it leaves.               *)
(* st.v holds the st.n live elements; the storage beyond them is never     *)
(* read and is not modelled.                                               *)
(***************************************************************************)
\* st->v[i]
At(st, i) == st.v[i + 1]

Ret(code, m) == [ret |-> code, st |-> m.st, heap |-> m.heap, timers |-> m.timers]

\* the machine with the top k elements replaced by the elements of vs
Replace(m, k, vs, code) ==
    [ret |-> code,
     st |-> [m.st EXCEPT !.n = m.st.n - k + Len(vs),
                         !.v = SubSeq(m.st.v, 1, m.st.n - k) \o vs],
     heap |-> m.heap, timers |-> m.timers]

rpn_do_plus(m, me) ==
    IF m.st.n < 2 THEN Ret(-1, m)
    ELSE Replace(m, 2, <<RAdd(At(m.st, m.st.n - 2), At(m.st, m.st.n - 1))>>, 0)

\* subtracts the wrong way round
rpn_do_minus_rev(m, me) ==
    IF m.st.n < 2 THEN Ret(-1, m)
    ELSE Replace(m, 2, <<RSub(At(m.st, m.st.n - 1), At(m.st, m.st.n - 2))>>, 0)

rpn_do_minus(m, me) ==
    IF m.st.n < 2 THEN Ret(-1, m)
    ELSE Replace(m, 2, <<RSub(At(m.st, m.st.n - 2), At(m.st, m.st.n - 1))>>, 0)

rpn_do_mul(m, me) ==
    IF m.st.n < 2 THEN Ret(-1, m)
    ELSE Replace(m, 2, <<RMul(At(m.st, m.st.n - 2), At(m.st, m.st.n - 1))>>, 0)

rpn_do_div(m, me) ==
    IF m.st.n < 2 THEN Ret(-1, m)
    ELSE Replace(m, 2, <<RDiv(At(m.st, m.st.n - 2), At(m.st, m.st.n - 1))>>, 0)

rpn_do_pow(m, me) ==
    IF m.st.n < 2 THEN Ret(-1, m)
    ELSE Replace(m, 2, <<RPow(At(m.st, m.st.n - 2), At(m.st, m.st.n - 1))>>, 0)

rpn_do_limit(m, me) ==
    IF m.st.n < 3 THEN Ret(-1, m)
    ELSE LET x == At(m.st, m.st.n - 3)
             lo == At(m.st, m.st.n - 2)
             hi == At(m.st, m.st.n - 1)
         IN  Replace(m, 3, <<IF RLt(x, lo) THEN lo
                             ELSE IF RLt(hi, x) THEN hi ELSE x>>, 1)

\* takes equal bounds for a regular range
rpn_do_inrange_le(m, me) ==
    IF m.st.n < 3 THEN Ret(-1, m)
    ELSE LET x == At(m.st, m.st.n - 3)
             lo == At(m.st, m.st.n - 2)
             hi == At(m.st, m.st.n - 1)
         IN  Replace(m, 3, <<IF RLe(lo, hi)
                             THEN Num(Bool(RLe(lo, x) /\ RLe(x, hi)))
                             ELSE Num(Bool(RLe(lo, x) \/ RLe(x, hi)))>>, 1)

\* takes every range as a regular one
rpn_do_inrange_nowrap(m, me) ==
    IF m.st.n < 3 THEN Ret(-1, m)
    ELSE LET x == At(m.st, m.st.n - 3)
             lo == At(m.st, m.st.n - 2)
             hi == At(m.st, m.st.n - 1)
         IN  Replace(m, 3, <<Num(Bool(RLe(lo, x) /\ RLe(x, hi)))>>, 1)

rpn_do_inrange(m, me) ==
    IF m.st.n < 3 THEN Ret(-1, m)
    ELSE LET x == At(m.st, m.st.n - 3)
             lo == At(m.st, m.st.n - 2)
             hi == At(m.st, m.st.n - 1)
         IN  Replace(m, 3, <<IF RLt(lo, hi)
                             THEN Num(Bool(RLe(lo, x) /\ RLe(x, hi)))
                             ELSE Num(Bool(RLe(lo, x) \/ RLe(x, hi)))>>, 1)

rpn_do_bitand(m, me) ==
    IF m.st.n < 2 THEN Ret(-1, m)
    ELSE Replace(m, 2, <<Num(BitAnd(CastInt(At(m.st, m.st.n - 2)), CastInt(At(m.st, m.st.n - 1))))>>, 0)

rpn_do_bitor(m, me) ==
    IF m.st.n < 2 THEN Ret(-1, m)
    ELSE Replace(m, 2, <<Num(BitOr(CastInt(At(m.st, m.st.n - 2)), CastInt(At(m.st, m.st.n - 1))))>>, 0)

rpn_do_bitxor(m, me) ==
    IF m.st.n < 2 THEN Ret(-1, m)
    ELSE Replace(m, 2, <<Num(BitXor(CastInt(At(m.st, m.st.n - 2)), CastInt(At(m.st, m.st.n - 1))))>>, 0)

rpn_do_bitinv(m, me) ==
    IF m.st.n < 1 THEN Ret(-1, m)
    ELSE Replace(m, 1, <<Num(BitInv(CastInt(At(m.st, m.st.n - 1))))>>, 0)

\* takes every nonzero operand for true
rpn_do_booland_raw(m, me) ==
    IF m.st.n < 2 THEN Ret(-1, m)
    ELSE Replace(m, 2, <<Num(Bool(At(m.st, m.st.n - 2) # Num(0) /\ At(m.st, m.st.n - 1) # Num(0)))>>, 0)

rpn_do_booland(m, me) ==
    IF m.st.n < 2 THEN Ret(-1, m)
    ELSE Replace(m, 2, <<Num(Bool(CastInt(At(m.st, m.st.n - 2)) # 0 /\ CastInt(At(m.st, m.st.n - 1)) # 0))>>, 0)

rpn_do_boolor(m, me) ==
    IF m.st.n < 2 THEN Ret(-1, m)
    ELSE Replace(m, 2, <<Num(Bool(CastInt(At(m.st, m.st.n - 2)) # 0 \/ CastInt(At(m.st, m.st.n - 1)) # 0))>>, 0)

\* asks for two elements
rpn_do_boolnot_two(m, me) ==
    IF m.st.n < 2 THEN Ret(-1, m)
    ELSE Replace(m, 1, <<Num(Bool(CastInt(At(m.st, m.st.n - 1)) = 0))>>, 0)

rpn_do_boolnot(m, me) ==
    IF m.st.n < 1 THEN Ret(-1, m)
    ELSE Replace(m, 1, <<Num(Bool(CastInt(At(m.st, m.st.n - 1)) = 0))>>, 0)

\* compares the operands as they are
rpn_do_lt_exact(m, me) ==
    IF m.st.n < 2 THEN Ret(-1, m)
    ELSE Replace(m, 2, <<Num(Bool(RLt(At(m.st, m.st.n - 2), At(m.st, m.st.n - 1))))>>, 0)

rpn_do_lt(m, me) ==
    IF m.st.n < 2 THEN Ret(-1, m)
    ELSE Replace(m, 2, <<Num(Bool(RLt(At(m.st, m.st.n - 2), Num(CastInt(At(m.st, m.st.n - 1))))))>>, 0)

rpn_do_gt(m, me) ==
    IF m.st.n < 2 THEN Ret(-1, m)
    ELSE Replace(m, 2, <<Num(Bool(RLt(Num(CastInt(At(m.st, m.st.n - 1))), At(m.st, m.st.n - 2))))>>, 0)

\* the stack grows by 16 elements when it is full
StackChunk == 16

\* grows the storage one push too late
rpn_push_late(st, value) ==
    [n |-> st.n + 1,
     s |-> IF st.n > st.s THEN st.s + StackChunk ELSE st.s,
     v |-> Append(st.v, value)]

rpn_push(st, value) ==
    [n |-> st.n + 1,
     s |-> IF st.n >= st.s THEN st.s + StackChunk ELSE st.s,
     v |-> Append(st.v, value)]

Push(m, value) ==
    [ret |-> 0, st |-> rpn_push(m.st, value), heap |-> m.heap, timers |-> m.timers]

rpn_do_const(m, me) == Push(m, m.heap[me].value)

\* the value the environment provider gives for a topic: env maps the
\* topics it knows to their value, any other topic reads as NaN
rpn_lookup_env(env, topic) ==
    IF topic[1] \in DOMAIN env THEN env[topic[1]] ELSE NaN

rpn_do_env(m, me, env) == Push(m, rpn_lookup_env(env, m.heap[me].topic))

rpn_do_dup(m, me) ==
    IF m.st.n < 1 THEN Ret(-1, m)
    ELSE Push(m, At(m.st, m.st.n - 1))

rpn_do_swap(m, me) ==
    IF m.st.n < 2 THEN Ret(-1, m)
    ELSE Replace(m, 2, <<At(m.st, m.st.n - 1), At(m.st, m.st.n - 2)>>, 0)

(***************************************************************************)
(* timers: a pending timer is a record of its callback fn, its argument    *)
(* dat and the delay it was added with                                     *)
(***************************************************************************)
\* adding replaces the pending timer of the same callback and argument
libt_add_timeout(timers, wait, fn, dat) ==
    {t \in timers : ~(t.fn = fn /\ t.dat = dat)}
        \cup {[fn |-> fn, dat |-> dat, wait |-> wait]}

\* removing is a no-op when none is pending
libt_remove_timeout(timers, fn, dat) ==
    {t \in timers : ~(t.fn = fn /\ t.dat = dat)}

\* sets the output bit where on_delay toggles it
on_delay_set(h, me) == [h EXCEPT ![me].cookie = BitOr(h[me].cookie, 2)]

\* me->cookie ^= 2
on_delay(h, me) == [h EXCEPT ![me].cookie = BitXor(h[me].cookie, 2)]

\* the common end of the timed operators: store the input bit, write the
\* output bit to the stack
DelayOut(m, me, cookie, timers) ==
    LET inval == CastInt(At(m.st, m.st.n - 2))
        c == BitOr(BitAnd(cookie, BitInv(1)), Bool(inval # 0))
    IN  [ret |-> 0,
         st |-> [m.st EXCEPT !.n = m.st.n - 1,
                             !.v = SubSeq(m.st.v, 1, m.st.n - 2)
                                     \o <<Num(Bool(BitAnd(c, 2) # 0))>>],
         heap |-> [m.heap EXCEPT ![me].cookie = c],
         timers |-> timers]

\* leaves the pending timer on a rising edge
rpn_do_offdelay_nocancel(m, me) ==
    IF m.st.n < 2 THEN Ret(-1, m)
    ELSE LET inval == CastInt(At(m.st, m.st.n - 2))
             cookie == m.heap[me].cookie
         IN  IF inval = 0 /\ BitAnd(cookie, 1) # 0
             THEN DelayOut(m, me, cookie,
                      libt_add_timeout(m.timers, At(m.st, m.st.n - 1), "on_delay", me))
             ELSE IF inval # 0 /\ BitAnd(cookie, 1) = 0
             THEN DelayOut(m, me, BitOr(cookie, 2), m.timers)
             ELSE DelayOut(m, me, cookie, m.timers)

rpn_do_offdelay(m, me) ==
    IF m.st.n < 2 THEN Ret(-1, m)
    ELSE LET inval == CastInt(At(m.st, m.st.n - 2))
             cookie == m.heap[me].cookie
         IN  IF inval = 0 /\ BitAnd(cookie, 1) # 0
             THEN DelayOut(m, me, cookie,
                      libt_add_timeout(m.timers, At(m.st, m.st.n - 1), "on_delay", me))
             ELSE IF inval # 0 /\ BitAnd(cookie, 1) = 0
             THEN DelayOut(m, me, BitOr(cookie, 2),
                      libt_remove_timeout(m.timers, "on_delay", me))
             ELSE DelayOut(m, me, cookie, m.timers)

\* leaves the output as it is on a falling edge
rpn_do_ondelay_latch(m, me) ==
    IF m.st.n < 2 THEN Ret(-1, m)
    ELSE LET inval == CastInt(At(m.st, m.st.n - 2))
             cookie == m.heap[me].cookie
         IN  IF inval # 0 /\ BitAnd(cookie, 1) = 0
             THEN DelayOut(m, me, cookie,
                      libt_add_timeout(m.timers, At(m.st, m.st.n - 1), "on_delay", me))
             ELSE IF inval = 0 /\ BitAnd(cookie, 1) # 0
             THEN DelayOut(m, me, cookie,
                      libt_remove_timeout(m.timers, "on_delay", me))
             ELSE DelayOut(m, me, cookie, m.timers)

\* sets the output on the rising edge already
rpn_do_ondelay_set(m, me) ==
    IF m.st.n < 2 THEN Ret(-1, m)
    ELSE LET inval == CastInt(At(m.st, m.st.n - 2))
             cookie == m.heap[me].cookie
         IN  IF inval # 0 /\ BitAnd(cookie, 1) = 0
             THEN DelayOut(m, me, BitOr(cookie, 2),
                      libt_add_timeout(m.timers, At(m.st, m.st.n - 1), "on_delay", me))
             ELSE IF inval = 0 /\ BitAnd(cookie, 1) # 0
             THEN DelayOut(m, me, BitAnd(cookie, BitInv(2)),
                      libt_remove_timeout(m.timers, "on_delay", me))
             ELSE DelayOut(m, me, cookie, m.timers)

\* leaves the pending timer on a falling edge
rpn_do_ondelay_nocancel(m, me) ==
    IF m.st.n < 2 THEN Ret(-1, m)
    ELSE LET inval == CastInt(At(m.st, m.st.n - 2))
             cookie == m.heap[me].cookie
         IN  IF inval # 0 /\ BitAnd(cookie, 1) = 0
             THEN DelayOut(m, me, cookie,
                      libt_add_timeout(m.timers, At(m.st, m.st.n - 1), "on_delay", me))
             ELSE IF inval = 0 /\ BitAnd(cookie, 1) # 0
             THEN DelayOut(m, me, BitAnd(cookie, BitInv(2)), m.timers)
             ELSE DelayOut(m, me, cookie, m.timers)

rpn_do_ondelay(m, me) ==
    IF m.st.n < 2 THEN Ret(-1, m)
    ELSE LET inval == CastInt(At(m.st, m.st.n - 2))
             cookie == m.heap[me].cookie
         IN  IF inval # 0 /\ BitAnd(cookie, 1) = 0
             THEN DelayOut(m, me, cookie,
                      libt_add_timeout(m.timers, At(m.st, m.st.n - 1), "on_delay", me))
             ELSE IF inval = 0 /\ BitAnd(cookie, 1) # 0
             THEN DelayOut(m, me, BitAnd(cookie, BitInv(2)),
                      libt_remove_timeout(m.timers, "on_delay", me))
             ELSE DelayOut(m, me, cookie, m.timers)

\* clears the output on a falling edge
rpn_do_pulse_clear(m, me) ==
    IF m.st.n < 2 THEN Ret(-1, m)
    ELSE LET inval == CastInt(At(m.st, m.st.n - 2))
             cookie == m.heap[me].cookie
         IN  IF inval # 0 /\ BitAnd(cookie, 1) = 0
             THEN DelayOut(m, me, BitOr(cookie, 2),
                      libt_add_timeout(m.timers, At(m.st, m.st.n - 1), "on_delay", me))
             ELSE IF inval = 0 /\ BitAnd(cookie, 1) # 0
             THEN DelayOut(m, me, BitAnd(cookie, BitInv(2)),
                      libt_remove_timeout(m.timers, "on_delay", me))
             ELSE DelayOut(m, me, cookie, m.timers)

\* does not set the output on the rising edge
rpn_do_pulse_unset(m, me) ==
    IF m.st.n < 2 THEN Ret(-1, m)
    ELSE LET inval == CastInt(At(m.st, m.st.n - 2))
             cookie == m.heap[me].cookie
         IN  IF inval # 0 /\ BitAnd(cookie, 1) = 0
             THEN DelayOut(m, me, cookie,
                      libt_add_timeout(m.timers, At(m.st, m.st.n - 1), "on_delay", me))
             ELSE IF inval = 0 /\ BitAnd(cookie, 1) # 0
             THEN DelayOut(m, me, cookie,
                      libt_remove_timeout(m.timers, "on_delay", me))
             ELSE DelayOut(m, me, cookie, m.timers)

\* registers its timer with the owner handle as the argument
rpn_do_pulse_ownerkey(m, me) ==
    IF m.st.n < 2 THEN Ret(-1, m)
    ELSE LET inval == CastInt(At(m.st, m.st.n - 2))
             cookie == m.heap[me].cookie
         IN  IF inval # 0 /\ BitAnd(cookie, 1) = 0
             THEN DelayOut(m, me, BitOr(cookie, 2),
                      libt_add_timeout(m.timers, At(m.st, m.st.n - 1), "on_delay",
                                       m.heap[me].dat))
             ELSE IF inval = 0 /\ BitAnd(cookie, 1) # 0
             THEN DelayOut(m, me, cookie,
                      libt_remove_timeout(m.timers, "on_delay", me))
             ELSE DelayOut(m, me, cookie, m.timers)

rpn_do_pulse(m, me) ==
    IF m.st.n < 2 THEN Ret(-1, m)
    ELSE LET inval == CastInt(At(m.st, m.st.n - 2))
             cookie == m.heap[me].cookie
         IN  IF inval # 0 /\ BitAnd(cookie, 1) = 0
             THEN DelayOut(m, me, BitOr(cookie, 2),
                      libt_add_timeout(m.timers, At(m.st, m.st.n - 1), "on_delay", me))
             ELSE IF inval = 0 /\ BitAnd(cookie, 1) # 0
             THEN DelayOut(m, me, cookie,
                      libt_remove_timeout(m.timers, "on_delay", me))
             ELSE DelayOut(m, me, cookie, m.timers)

\* the common end of the event operators: write the output, store the input
EventOut(m, me, out) ==
    [ret |-> 0,
     st |-> [m.st EXCEPT !.v = SubSeq(m.st.v, 1, m.st.n - 1) \o <<Num(Bool(out))>>],
     heap |-> [m.heap EXCEPT ![me].cookie = CastInt(At(m.st, m.st.n - 1))],
     timers |-> m.timers]

\* stores the input as a truth value
rpn_do_edge_bool(m, me) ==
    IF m.st.n < 1 THEN Ret(-1, m)
    ELSE LET r == EventOut(m, me, CastInt(At(m.st, m.st.n - 1)) # m.heap[me].cookie)
         IN  [r EXCEPT !.heap[me].cookie = Bool(CastInt(At(m.st, m.st.n - 1)) # 0)]

\* keeps the input in the value of the node
rpn_do_edge_value(m, me) ==
    IF m.st.n < 1 THEN Ret(-1, m)
    ELSE LET r == EventOut(m, me, CastInt(At(m.st, m.st.n - 1)) # m.heap[me].cookie)
         IN  [r EXCEPT !.heap[me].value = At(m.st, m.st.n - 1)]

rpn_do_edge(m, me) ==
    IF m.st.n < 1 THEN Ret(-1, m)
    ELSE EventOut(m, me, CastInt(At(m.st, m.st.n - 1)) # m.heap[me].cookie)

\* follows the level of the input
rpn_do_rising_level(m, me) ==
    IF m.st.n < 1 THEN Ret(-1, m)
    ELSE EventOut(m, me, CastInt(At(m.st, m.st.n - 1)) # 0)

rpn_do_rising(m, me) ==
    IF m.st.n < 1 THEN Ret(-1, m)
    ELSE EventOut(m, me, CastInt(At(m.st, m.st.n - 1)) # 0 /\ m.heap[me].cookie = 0)

rpn_do_falling(m, me) ==
    IF m.st.n < 1 THEN Ret(-1, m)
    ELSE EventOut(m, me, CastInt(At(m.st, m.st.n - 1)) = 0 /\ m.heap[me].cookie # 0)

\* lets a delay of 0 through
next_minute_zero(tm) ==
    LET next == 60 - tm.tm_sec
    IN  IF next < 0 \/ next > 60 THEN 60 ELSE next

\* seconds to the next minute; tm is the broken-down local time
next_minute(tm) ==
    LET next == 60 - tm.tm_sec
    IN  IF next <= 0 \/ next > 60 THEN 60 ELSE next

rpn_do_timeofday(m, me, tm) ==
    [ret |-> 0,
     st |-> rpn_push(m.st, RAdd(Num(tm.tm_hour),
                RAdd(Norm(tm.tm_min, 60), Norm(tm.tm_sec, 3600)))),
     heap |-> m.heap,
     timers |-> libt_add_timeout(m.timers, Num(next_minute(tm)),
                                 "rpn_run_again", m.heap[me].dat)]

rpn_do_dayofweek(m, me, tm) ==
    [ret |-> 0,
     st |-> rpn_push(m.st, Num(IF tm.tm_wday # 0 THEN tm.tm_wday ELSE 7)),
     heap |-> m.heap,
     timers |-> libt_add_timeout(m.timers, Num(next_minute(tm)),
                                 "rpn_run_again", m.heap[me].dat)]

(***************************************************************************)
(* run time                                                                *)
(***************************************************************************)
\* leaves the elements of the pass before on the stack
rpn_stack_reset_keep(st) == st

rpn_stack_reset(st) == [st EXCEPT !.n = 0, !.v = <<>>]

\* rpn->run(st, rpn)
Dispatch(m, me, env, tm) ==
    LET run == m.heap[me].run
    IN  CASE run = "rpn_do_plus" -> rpn_do_plus(m, me)
          [] run = "rpn_do_minus" -> rpn_do_minus(m, me)
          [] run = "rpn_do_mul" -> rpn_do_mul(m, me)
          [] run = "rpn_do_div" -> rpn_do_div(m, me)
          [] run = "rpn_do_pow" -> rpn_do_pow(m, me)
          [] run = "rpn_do_limit" -> rpn_do_limit(m, me)
          [] run = "rpn_do_inrange" -> rpn_do_inrange(m, me)
          [] run = "rpn_do_bitand" -> rpn_do_bitand(m, me)
          [] run = "rpn_do_bitor" -> rpn_do_bitor(m, me)
          [] run = "rpn_do_bitxor" -> rpn_do_bitxor(m, me)
          [] run = "rpn_do_bitinv" -> rpn_do_bitinv(m, me)
          [] run = "rpn_do_booland" -> rpn_do_booland(m, me)
          [] run = "rpn_do_boolor" -> rpn_do_boolor(m, me)
          [] run = "rpn_do_boolnot" -> rpn_do_boolnot(m, me)
          [] run = "rpn_do_lt" -> rpn_do_lt(m, me)
          [] run = "rpn_do_gt" -> rpn_do_gt(m, me)
          [] run = "rpn_do_const" -> rpn_do_const(m, me)
          [] run = "rpn_do_env" -> rpn_do_env(m, me, env)
          [] run = "rpn_do_dup" -> rpn_do_dup(m, me)
          [] run = "rpn_do_swap" -> rpn_do_swap(m, me)
          [] run = "rpn_do_offdelay" -> rpn_do_offdelay(m, me)
          [] run = "rpn_do_ondelay" -> rpn_do_ondelay(m, me)
          [] run = "rpn_do_pulse" -> rpn_do_pulse(m, me)
          [] run = "rpn_do_edge" -> rpn_do_edge(m, me)
          [] run = "rpn_do_rising" -> rpn_do_rising(m, me)
          [] run = "rpn_do_falling" -> rpn_do_falling(m, me)
          [] run = "rpn_do_timeofday" -> rpn_do_timeofday(m, me, tm)
          [] run = "rpn_do_dayofweek" -> rpn_do_dayofweek(m, me, tm)

\* what one node did in a pass: its return code, the stack, its cookie and
\* the pending timers before (0) and after (1) it ran
LogEntry(m, me, r) ==
    [rpn |-> me, run |-> m.heap[me].run, ret |-> r.ret,
     v0 |-> m.st.v, v1 |-> r.st.v,
     c0 |-> m.heap[me].cookie, c1 |-> r.heap[me].cookie,
     t0 |-> m.timers, t1 |-> r.timers]

\* any nonzero return code ends the walk
FailedNonzero(ret) == ret # 0

\* a failing node ends the walk
Failed(ret) == ret < 0

\* the walk of rpn_run from node rpn on; log collects what the nodes did
RECURSIVE rpn_run(_, _, _, _, _)

\* node rpn has run with result r
AfterNode(r, rpn, env, tm, log) ==
    IF Failed(r.ret)
    THEN [ret |-> r.ret, st |-> r.st, heap |-> r.heap, timers |-> r.timers, log |-> log]
    ELSE rpn_run([st |-> r.st, heap |-> r.heap, timers |-> r.timers],
                 r.heap[rpn].next, env, tm, log)

RunNodeAt(m, rpn, env, tm, log, r) ==
    AfterNode(r, rpn, env, tm, Append(log, LogEntry(m, rpn, r)))

rpn_run(m, rpn, env, tm, log) ==
    IF rpn = NULL
    THEN [ret |-> 0, st |-> m.st, heap |-> m.heap, timers |-> m.timers, log |-> log]
    ELSE RunNodeAt(m, rpn, env, tm, log, Dispatch(m, rpn, env, tm))

(***************************************************************************)
(* sources                                                                 *)
(***************************************************************************)
\* the tokens joined by single spaces
RECURSIVE Join(_)
Join(toks) ==
    IF toks = <<>> THEN <<>>
    ELSE IF Len(toks) = 1 THEN toks[1]
    ELSE toks[1] \o <<" ">> \o Join(Tail(toks))

\* every sequence of at most k elements of set
SeqsUpTo(set, k) == UNION {[1 .. j -> set] : j \in 0 .. k}

Bogus == <<"b", "o", "g", "u", "s">>

\* constants, the stateless arithmetic and stack operators, an unknown token
ArithToks ==
    {<<"3">>, <<"4">>, <<"+">>, <<"-">>, <<"*">>, <<"d", "u", "p">>, <<"s", "w", "a", "p">>, Bogus}

ArithSources == {Join(ts) : ts \in SeqsUpTo(ArithToks, MaxLen)}

\* operands followed by one keyword
Operands == {<<"1">>, <<"$", "{", "a", "}">>}

OpSources ==
    {Join(ts \o <<lookups[i].str>>) :
        ts \in SeqsUpTo(Operands, MaxArgs), i \in 1 .. Len(lookups)}

\* chains of the stateful operators
Sources == {
    Join(<<<<"$", "{", "a", "}">>, <<"5">>, <<"o", "n", "d", "e", "l", "a", "y">>>>),
    Join(<<<<"$", "{", "a", "}">>, <<"3">>, <<"o", "f", "f", "d", "e", "l", "a", "y">>>>),
    Join(<<<<"$", "{", "a", "}">>, <<"2">>, <<"p", "u", "l", "s", "e">>>>),
    Join(<<<<"$", "{", "a", "}">>, <<"r", "i", "s", "i", "n", "g">>>>),
    Join(<<<<"$", "{", "a", "}">>, <<"p", "u", "s", "h", "e", "d">>>>),
    Join(<<<<"$", "{", "a", "}">>, <<"e", "d", "g", "e">>>>),
    Join(<<<<"$", "{", "a", "}">>, <<"c", "h", "a", "n", "g", "e", "d">>>>),
    Join(<<<<"$", "{", "a", "}">>, <<"f", "a", "l", "l", "i", "n", "g">>>>),
    Join(<<<<"$", "{", "a", "}">>, <<"5">>, <<"o", "n", "d", "e", "l", "a", "y">>, <<"$", "{", "a", "}">>, <<"2">>, <<"p", "u", "l", "s", "e">>, <<"+">>>>),
    Join(<<<<"1">>, <<"+">>, <<"$", "{", "a", "}">>, <<"r", "i", "s", "i", "n", "g">>>>),
    Join(<<<<"$", "{", "a", "}">>, <<"0">>, <<"1">>, <<"l", "i", "m", "i", "t">>, <<"+">>, <<"$", "{", "a", "}">>, <<"r", "i", "s", "i", "n", "g">>>>),
    Join(<<<<"$", "{", "a", "}">>, <<"r", "i", "s", "i", "n", "g">>, <<"5">>, <<"o", "n", "d", "e", "l", "a", "y">>>>),
    Join(<<<<"$", "{", "a", "}">>, <<"r", "i", "s", "i", "n", "g">>, <<"!">>, <<"3">>, <<"o", "f", "f", "d", "e", "l", "a", "y">>>>),
    Join(<<<<"$", "{", "a", "}">>, <<"r", "i", "s", "i", "n", "g">>, <<"+">>>>),
    Join(<<<<"$", "{", "a", "}">>, <<"0">>, <<"1">>, <<"l", "i", "m", "i", "t">>, <<"5">>, <<"o", "n", "d", "e", "l", "a", "y">>>>),
    Join(<<<<"$", "{", "a", "}">>, <<"1">>, <<"2">>, <<"i", "n", "r", "a", "n", "g", "e">>, <<"$", "{", "a", "}">>, <<"e", "d", "g", "e">>, <<"s", "w", "a", "p">>>>),
    Join(<<<<"$", "{", "a", "}">>, <<"1">>, <<"2">>, <<"i", "n", "r", "a", "n", "g", "e">>, <<"3">>, <<"o", "f", "f", "d", "e", "l", "a", "y">>, <<"2">>, <<"p", "u", "l", "s", "e">>, <<"1">>>>),
    Join(<<<<"t", "i", "m", "e", "o", "f", "d", "a", "y">>, <<"6">>, <<"2", "2">>, <<"i", "n", "r", "a", "n", "g", "e">>>>),
    Join(<<<<"d", "a", "y", "o", "f", "w", "e", "e", "k">>, <<"6">>, <<"<">>, <<"$", "{", "a", "}">>, <<"&", "&">>>>),
    Join(<<<<"t", "i", "m", "e", "o", "f", "d", "a", "y">>, <<"d", "a", "y", "o", "f", "w", "e", "e", "k">>, <<"+">>>>)
}

\* sexagesimal literals: a sign, a number, and then possibly a separator of
\* ":h'" with a number and possibly a separator of ":m\"" with a number;
\* a part is its text and the value it stands for
Signs == {<<>>, <<"-">>}

FirstParts == {
    [str |-> <<"0">>, val |-> Num(0)],
    [str |-> <<"1">>, val |-> Num(1)],
    [str |-> <<"1", "2">>, val |-> Num(12)],
    [str |-> <<"2", ".", "5">>, val |-> Norm(5, 2)]
}

NoPart == [str |-> <<>>, val |-> Num(0)]

MinuteParts == {
    NoPart,
    [str |-> <<"0">>, val |-> Num(0)],
    [str |-> <<"3", "0">>, val |-> Num(30)],
    [str |-> <<"7", ".", "5">>, val |-> Norm(15, 2)]
}

SecondParts == {
    NoPart,
    [str |-> <<"3", "0">>, val |-> Num(30)],
    [str |-> <<"3", "6">>, val |-> Num(36)]
}

Sep1 == {<<":">>, <<"h">>, <<"'">>}
Sep2 == {<<":">>, <<"m">>, <<"\"">>}

\* the shapes a, a<sep1>b and a<sep1>b<sep2>c
Shapes ==
    {[a |-> a, s1 |-> <<>>, b |-> NoPart, s2 |-> <<>>, c |-> NoPart] : a \in FirstParts}
    \cup {[a |-> a, s1 |-> s1, b |-> b, s2 |-> <<>>, c |-> NoPart] :
              a \in FirstParts, s1 \in Sep1, b \in MinuteParts}
    \cup {[a |-> a, s1 |-> s1, b |-> b, s2 |-> s2, c |-> c] :
              a \in FirstParts, s1 \in Sep1, b \in MinuteParts,
              s2 \in Sep2, c \in SecondParts}

Literal(sign, l) == sign \o l.a.str \o l.s1 \o l.b.str \o l.s2 \o l.c.str

\* the shape a<sep2>c, a seconds part straight after the first number
SecondSigns == {<<"m">>, <<"\"">>}

DirectSeconds ==
    {a.str \o s2 \o c.str : a \in FirstParts, s2 \in SecondSigns, c \in SecondParts}

NumSources == {Literal(sign, l) : sign \in Signs, l \in Shapes} \cup DirectSeconds

\* inrange on three operands, each a constant or the input
RangeOperands == {<<"6">>, <<"2", "2">>, <<"$", "{", "a", "}">>}

\* inrange on 0.0 / 0.0, which is no number
NaNSources ==
    {Join(<<<<"0">>, <<"0">>, <<"/">>, lo, hi, <<"i", "n", "r", "a", "n", "g", "e">>>>) :
        lo \in RangeOperands, hi \in RangeOperands}

RangeSources ==
    {Join(<<x, lo, hi, <<"i", "n", "r", "a", "n", "g", "e">>>>) :
        x \in RangeOperands, lo \in RangeOperands, hi \in RangeOperands}
    \cup NaNSources

\* chains of the clock operators
ClockSources == {
    <<"t", "i", "m", "e", "o", "f", "d", "a", "y">>,
    <<"d", "a", "y", "o", "f", "w", "e", "e", "k">>,
    Join(<<<<"t", "i", "m", "e", "o", "f", "d", "a", "y">>, <<"d", "a", "y", "o", "f", "w", "e", "e", "k">>, <<"+">>>>),
    Join(<<<<"t", "i", "m", "e", "o", "f", "d", "a", "y">>, <<"2", "2">>, <<"6">>, <<"i", "n", "r", "a", "n", "g", "e">>>>),
    Join(<<<<"+">>, <<"d", "a", "y", "o", "f", "w", "e", "e", "k">>>>)
}

\* tokens at the borders between number, reference and keyword
TokSet == {
    <<"+">>, <<"-">>, <<"+", "1">>, <<"-", "2">>, <<"3">>, <<"3", "+">>,
    <<"1", "d", "u", "p">>, <<"+", "x">>, <<"-", "-">>,
    <<"$", "{", "a", "}">>, <<"d", "u", "p">>
}

\* blanks only, and blanks around a token
BlankSources == {
    <<" ">>, <<"\t">>, <<" ", "\t", " ">>,
    <<" ", "3", "\t">>, <<"\t", " ", "+", "x", " ">>
}

TokSources == {Join(ts) : ts \in SeqsUpTo(TokSet, MaxLen)} \cup BlankSources

\* the operators that write a truth value
BoolOps == {
    "rpn_do_booland", "rpn_do_boolor", "rpn_do_boolnot", "rpn_do_lt", "rpn_do_gt",
    "rpn_do_inrange", "rpn_do_edge", "rpn_do_rising", "rpn_do_falling",
    "rpn_do_ondelay", "rpn_do_offdelay", "rpn_do_pulse"
}

\* their operands: whole and fractional constants and the input
BoolOperands == {<<"2">>, <<"2", ".", "5">>, <<"0", ".", "5">>, <<"$", "{", "a", "}">>}

BoolSources ==
    {Join(ts \o <<lookups[i].str>>) :
        ts \in SeqsUpTo(BoolOperands, MaxArgs),
        i \in {j \in 1 .. Len(lookups) : lookups[j].run \in BoolOps}}

BoolVals == {Norm(-5, 2), Norm(-1, 2), Num(0), Num(2)}

Topics == {<<"a">>}

\* owner handles
Owners == {101, 102}

\* values the environment provider gives
EnvVals == {Num(0), Norm(1, 2), Num(1), Num(2)}
OpVals == {Num(0), Num(1), Num(-2)}
RangeVals == {Num(-1), Num(6), Num(10), Norm(43, 2), Num(22), Num(23)}

\* broken-down local times of the clock
Noon == [tm_hour |-> 12, tm_min |-> 0, tm_sec |-> 15, tm_wday |-> 6]

\* seconds at, next to and beyond the ends of the minute
ClockTimes == {
    [tm_hour |-> 23, tm_min |-> 59, tm_sec |-> 0, tm_wday |-> 0],
    [tm_hour |-> 0, tm_min |-> 0, tm_sec |-> 1, tm_wday |-> 1],
    [tm_hour |-> 12, tm_min |-> 0, tm_sec |-> 15, tm_wday |-> 6],
    [tm_hour |-> 6, tm_min |-> 30, tm_sec |-> 59, tm_wday |-> 3],
    [tm_hour |-> 23, tm_min |-> 59, tm_sec |-> 60, tm_wday |-> 0],
    [tm_hour |-> 23, tm_min |-> 59, tm_sec |-> 61, tm_wday |-> 5]
}

Times == {
    [tm_hour |-> 23, tm_min |-> 59, tm_sec |-> 0, tm_wday |-> 0],
    [tm_hour |-> 6, tm_min |-> 30, tm_sec |-> 60, tm_wday |-> 3],
    Noon
}

(***************************************************************************)
(* state                                                                   *)
(***************************************************************************)
VARIABLES
    pc,      \* "start" before the owner has compiled its source, then "parsed";
             \* the last operation on the stack when the stack is driven directly
    cstr,    \* the source given to rpn_parse
    owner,   \* the owner handle given to rpn_parse
    heap,    \* the allocated nodes, by address
    root,    \* the chain rpn_parse returned
    st,      \* the owner's stack
    timers,  \* the timers pending in the scheduler
    env,     \* the values of the environment provider, by topic
    hist     \* the passes run so far: cause, input, clock, return code and log

vars == <<pc, cstr, owner, heap, root, st, timers, env, hist>>

Init ==
    /\ pc = "start"
    /\ cstr = <<>>
    /\ owner = NULL
    /\ heap = <<>>
    /\ root = NULL
    /\ st = [n |-> 0, s |-> 0, v |-> <<>>]
    /\ timers = {}
    /\ env = [t \in Topics |-> Num(0)]
    /\ hist = <<>>

\* the owner compiles a source
Compiled(c, dat, r) ==
    /\ cstr' = c
    /\ owner' = dat
    /\ heap' = r.heap
    /\ root' = r.root

CompileFrom(S, O) ==
    /\ pc = "start"
    /\ \E c \in S, dat \in O : Compiled(c, dat, rpn_parse(heap, c, dat))
    /\ pc' = "parsed"
    /\ UNCHANGED <<st, timers, env, hist>>

\* the owner's evaluation pass: reset the stack, run the chain from its
\* first node
PassDone(e, tm, cause, fired, r) ==
    /\ st' = r.st
    /\ heap' = r.heap
    /\ timers' = r.timers
    /\ hist' = Append(hist, [cause |-> cause, fired |-> fired, env |-> e,
                             tm |-> tm, ret |-> r.ret, log |-> r.log])

Pass(h, ts, e, tm, cause, fired) ==
    PassDone(e, tm, cause, fired,
             rpn_run([st |-> rpn_stack_reset(st), heap |-> h, timers |-> ts],
                     root, e, tm, <<>>))

\* a value arrives for a topic and the owner evaluates its chain
MessageFrom(V, T, max) ==
    /\ pc = "parsed"
    /\ root # NULL
    /\ Len(hist) < max
    /\ \E t \in Topics, v \in V, tm \in T :
          /\ env' = [env EXCEPT ![t] = v]
          /\ Pass(heap, timers, env', tm, "message", NULL)
    /\ UNCHANGED <<pc, cstr, owner, root>>

\* a pending timer expires: the scheduler drops it and calls its callback.
\* on_delay changes the node and calls rpn_run_again, which makes the
\* owner evaluate its chain
TimeoutUpTo(T, max) ==
    /\ pc = "parsed"
    /\ Len(hist) < max
    /\ \E t \in timers, tm \in T :
          Pass(IF t.fn = "on_delay" THEN on_delay(heap, t.dat) ELSE heap,
               timers \ {t}, env, tm, "timer",
               IF t.fn = "on_delay" THEN t.dat ELSE NULL)
    /\ UNCHANGED <<pc, cstr, owner, root, env>>

(***************************************************************************)
(* specifications                                                          *)
(***************************************************************************)
\* the chains of the stateful operators, with messages and timeouts
Compile == CompileFrom(Sources, {101})
Message == MessageFrom(EnvVals, {Noon}, MaxPass)
Timeout == TimeoutUpTo({Noon}, MaxPass)

Next == Compile \/ Message \/ Timeout

Spec == Init /\ [][Next]_vars

\* the generated arithmetic sources, compiled and run
CompileArith == CompileFrom(ArithSources, Owners)
RunArith == MessageFrom({Num(0)}, {Noon}, MaxRuns)

NextArith == CompileArith \/ RunArith

SpecArith == Init /\ [][NextArith]_vars

\* one keyword after some operands, compiled and run
CompileOps == CompileFrom(OpSources, Owners)
RunOps == MessageFrom(OpVals, Times, MaxRuns)

NextOps == CompileOps \/ RunOps

SpecOps == Init /\ [][NextOps]_vars

\* one numeric literal, compiled and run
CompileNum == CompileFrom(NumSources, {101})
RunNum == MessageFrom({Num(0)}, {Noon}, MaxRuns)

NextNum == CompileNum \/ RunNum

SpecNum == Init /\ [][NextNum]_vars

\* inrange on constants and the input, compiled and run
CompileRange == CompileFrom(RangeSources, {101})
RunRange == MessageFrom(RangeVals, {Noon}, MaxRuns)

NextRange == CompileRange \/ RunRange

SpecRange == Init /\ [][NextRange]_vars

\* the chains of the clock operators, run on messages and on the minute
CompileClock == CompileFrom(ClockSources, Owners)
RunClock == MessageFrom({Num(0)}, ClockTimes, MaxRuns)
TickClock == TimeoutUpTo(ClockTimes, MaxRuns)

NextClock == CompileClock \/ RunClock \/ TickClock

SpecClock == Init /\ [][NextClock]_vars

\* sources of the border tokens, compiled and run
CompileTok == CompileFrom(TokSources, {101})
RunTok == MessageFrom({Num(1)}, {Noon}, MaxRuns)

NextTok == CompileTok \/ RunTok

SpecTok == Init /\ [][NextTok]_vars

\* the operators that write a truth value, on whole and fractional operands
CompileBool == CompileFrom(BoolSources, {101})
RunBool == MessageFrom(BoolVals, {Noon}, MaxRuns)
TimeoutBool == TimeoutUpTo({Noon}, MaxRuns)

NextBool == CompileBool \/ RunBool \/ TimeoutBool

SpecBool == Init /\ [][NextBool]_vars

\* the stack driven directly: any sequence of pushes, operator applications
\* and resets
StackOps == {"rpn_do_dup", "rpn_do_swap", "rpn_do_mul", "rpn_do_booland",
             "rpn_do_limit", "rpn_do_inrange"}

StackPush ==
    /\ pc \in {"start", "pushed", "applied", "reset"}
    /\ st.n < MaxDepth
    /\ st' = rpn_push(st, Num(1))
    /\ pc' = "pushed"
    /\ UNCHANGED <<cstr, owner, heap, root, timers, env, hist>>

\* the stack after an operator ran with result r
Applied(r) ==
    /\ st' = r.st
    /\ pc' = "applied"

StackApply ==
    /\ pc \in {"start", "pushed", "applied", "reset"}
    /\ st.n < MaxDepth
    /\ \E run \in StackOps :
          Applied(Dispatch([st |-> st, heap |-> <<RunNode(run)>>, timers |-> {}],
                           1, env, Noon))
    /\ UNCHANGED <<cstr, owner, heap, root, timers, env, hist>>

StackReset ==
    /\ pc \in {"pushed", "applied", "reset"}
    /\ st' = rpn_stack_reset(st)
    /\ pc' = "reset"
    /\ UNCHANGED <<cstr, owner, heap, root, timers, env, hist>>

NextStack == StackPush \/ StackApply \/ StackReset

SpecStack == Init /\ [][NextStack]_vars

\* the owner tears its chain down: rpn_free_chain(root)
Teardown ==
    /\ pc = "parsed"
    /\ root # NULL
    /\ heap' = rpn_free_chain(heap, root)
    /\ root' = NULL
    /\ pc' = "freed"
    /\ UNCHANGED <<cstr, owner, st, timers, env, hist>>

\* a timer of a freed node expires: on_delay writes to and reads from
\* memory that was freed, which the program may survive or not
DanglingTimeout ==
    /\ pc = "freed"
    /\ \E t \in timers :
          /\ t.fn = "on_delay"
          /\ t.dat \notin DOMAIN heap
          /\ timers' = timers \ {t}
    /\ pc' \in {"freed", "crashed"}
    /\ UNCHANGED <<cstr, owner, heap, root, st, env, hist>>

\* the chains of the stateful operators, from compilation to teardown
NextLife == Compile \/ Message \/ Timeout \/ Teardown \/ DanglingTimeout

SpecLife == Init /\ [][NextLife]_vars

(***************************************************************************)
(* observations used by the properties                                     *)
(***************************************************************************)
\* the addresses of the chain that starts at rpn, in order
RECURSIVE Chain(_, _)
Chain(h, rpn) == IF rpn = NULL THEN <<>> ELSE <<rpn>> \o Chain(h, h[rpn].next)

Tokens == strtok(cstr)

IsKnownTok(tok) == IsNumTok(tok) \/ IsEnvTok(tok) \/ do_lookup(tok) # 0

HasUnknownToken == \E i \in 1 .. Len(Tokens) : ~IsKnownTok(Tokens[i])

\* node x ran in pass p, and what it did there
Ran(p, x) == \E i \in 1 .. Len(p.log) : p.log[i].rpn = x
Entry(p, x) == p.log[CHOOSE i \in 1 .. Len(p.log) : p.log[i].rpn = x]

\* the nodes compiled from a token of toks that ran in every pass so far
NodesOf(toks) ==
    LET tokens == strtok(cstr)
        chain == Chain(heap, root)
    IN  {chain[i] : i \in {j \in 1 .. Len(chain) :
                              /\ tokens[j] \in toks
                              /\ \A k \in 1 .. Len(hist) : Ran(hist[k], chain[j])}}

(***************************************************************************)
(* C1: when the source holds a token that is no number, no ${...} reference *)
(* and no keyword, rpn_parse returns no chain and no node it allocated     *)
(* stays allocated, wherever the token stands.                             *)
(***************************************************************************)
C1_ParseFailureFreesAll ==
    (pc = "parsed" /\ HasUnknownToken) => (root = NULL /\ DOMAIN heap = {})

\* the unknown token stands after two recognised ones
C1_Witness ==
    /\ pc = "parsed"
    /\ cstr = Join(<<<<"3">>, <<"4">>, Bogus>>)
    /\ root = NULL

(***************************************************************************)
(* C2: a pass runs the nodes of the chain in order; it fails exactly when  *)
(* a node returns a negative code, that node is the last one run and the   *)
(* nodes after it keep their state and timers; a positive code lets the    *)
(* pass go on with the next node.                                          *)
(***************************************************************************)
PassInOrder(p) ==
    LET chain == Chain(heap, root)
    IN  /\ Len(p.log) <= Len(chain)
        /\ \A i \in 1 .. Len(p.log) : p.log[i].rpn = chain[i]
        /\ \A i \in 1 .. (Len(p.log) - 1) :
              p.log[i].ret >= 0 /\ p.log[i + 1].v0 = p.log[i].v1
        /\ (p.ret < 0) <=> (\E i \in 1 .. Len(p.log) : p.log[i].ret < 0)
        /\ (p.ret < 0) => p.ret = p.log[Len(p.log)].ret
        /\ (p.ret >= 0) => (p.ret = 0 /\ Len(p.log) = Len(chain))

LaterNodesUntouched(p) ==
    LET chain == Chain(heap, root)
    IN  \A i \in (Len(p.log) + 1) .. Len(chain) :
           /\ heap'[chain[i]] = heap[chain[i]]
           /\ \A t \in timers \cup timers' : t.dat # chain[i]

C2_RunStopsAtFirstUnderflow ==
    [][hist' # hist =>
          /\ PassInOrder(hist'[Len(hist')])
          /\ LaterNodesUntouched(hist'[Len(hist')])]_vars

\* a node returned a positive code, a later one underflowed, and a node
\* after that one was not run
C2_Witness ==
    \E k \in 1 .. Len(hist) :
        /\ hist[k].ret < 0
        /\ Len(hist[k].log) < Len(Chain(heap, root))
        /\ \E i \in 1 .. Len(hist[k].log) : hist[k].log[i].ret > 0

(***************************************************************************)
(* C3: a source of numeric constants and + - * dup swap that does not      *)
(* underflow leaves, on its first pass, the stack of a reference postfix   *)
(* evaluator, one node run per token.                                      *)
(***************************************************************************)
\* the reference evaluator: the stack of integers after the tokens of ts
\* from token i on, <<"underflow">> when a token lacks operands
RECURSIVE RefEval(_, _, _)
RefEval(ts, i, s) ==
    LET n == Len(s)
        t == ts[i]
        rest(s1) == RefEval(ts, i + 1, s1)
    IN  IF i > Len(ts) THEN [ok |-> TRUE, s |-> s]
        ELSE IF t = <<"3">> THEN rest(Append(s, 3))
        ELSE IF t = <<"4">> THEN rest(Append(s, 4))
        ELSE IF t = <<"d", "u", "p">>
        THEN IF n < 1 THEN [ok |-> FALSE, s |-> s] ELSE rest(Append(s, s[n]))
        ELSE IF n < 2 THEN [ok |-> FALSE, s |-> s]
        ELSE IF t = <<"+">> THEN rest(SubSeq(s, 1, n - 2) \o <<s[n - 1] + s[n]>>)
        ELSE IF t = <<"-">> THEN rest(SubSeq(s, 1, n - 2) \o <<s[n - 1] - s[n]>>)
        ELSE IF t = <<"*">> THEN rest(SubSeq(s, 1, n - 2) \o <<s[n - 1] * s[n]>>)
        ELSE rest(SubSeq(s, 1, n - 2) \o <<s[n], s[n - 1]>>)

C3_ArithmeticMatchesReference ==
    \A ts \in SeqsUpTo(ArithToks \ {Bogus}, MaxLen) :
        (/\ pc = "parsed"
         /\ cstr = Join(ts)
         /\ Len(hist) >= 1
         /\ RefEval(ts, 1, <<>>).ok)
        => LET p == hist[1]
               ref == RefEval(ts, 1, <<>>).s
           IN  /\ p.ret = 0
               /\ Len(p.log) = Len(ts)
               /\ \A i \in 1 .. Len(ts) : p.log[i].rpn = Chain(heap, root)[i]
               /\ p.log[Len(ts)].v1 = [i \in 1 .. Len(ref) |-> Num(ref[i])]

\* "3 4 -" has left [-1]
C3_Witness ==
    /\ cstr = Join(<<<<"3">>, <<"4">>, <<"-">>>>)
    /\ Len(hist) = 1
    /\ hist[1].ret = 0
    /\ st.n = 1
    /\ st.v = <<Num(-1)>>

(***************************************************************************)
(* C4: an operator that takes k elements returns underflow exactly when    *)
(* the stack holds fewer than k, and then leaves the stack, the cookie of  *)
(* its node and the pending timers as they were.                           *)
(***************************************************************************)
Takes(run) ==
    CASE run \in {"rpn_do_bitinv", "rpn_do_boolnot", "rpn_do_dup", "rpn_do_edge",
                  "rpn_do_rising", "rpn_do_falling"} -> 1
      [] run \in {"rpn_do_plus", "rpn_do_minus", "rpn_do_mul", "rpn_do_div",
                  "rpn_do_pow", "rpn_do_bitand", "rpn_do_bitor", "rpn_do_bitxor",
                  "rpn_do_booland", "rpn_do_boolor", "rpn_do_lt", "rpn_do_gt",
                  "rpn_do_swap", "rpn_do_ondelay", "rpn_do_offdelay",
                  "rpn_do_pulse"} -> 2
      [] run \in {"rpn_do_limit", "rpn_do_inrange"} -> 3
      [] OTHER -> 0

C4_UnderflowBeforeUse ==
    \A k \in 1 .. Len(hist) : \A i \in 1 .. Len(hist[k].log) :
        LET e == hist[k].log[i]
        IN  /\ (e.ret < 0) <=> (Len(e.v0) < Takes(e.run))
            /\ (e.ret < 0) => (e.v1 = e.v0 /\ e.c1 = e.c0 /\ e.t1 = e.t0)
            /\ (k = Len(hist) /\ i = Len(hist[k].log)) =>
                  (st.n = Len(e.v1) /\ st.v = e.v1)

\* ondelay found one element where it takes two
C4_Witness ==
    \E k \in 1 .. Len(hist) : \E i \in 1 .. Len(hist[k].log) :
        LET e == hist[k].log[i]
        IN  e.run = "rpn_do_ondelay" /\ Len(e.v0) = 1 /\ e.ret < 0

(***************************************************************************)
(* observations of the stateful operators over the passes run so far       *)
(***************************************************************************)
\* what pass i saw of node x
E(i, x) == Entry(hist[i], x)

\* the truncated input of an operator of one or of two operands, the delay
\* operand, and the output it wrote
In1(e) == CastInt(e.v0[Len(e.v0)])
In2(e) == CastInt(e.v0[Len(e.v0) - 1])
Delay(e) == e.v0[Len(e.v0)]
Out(e) == e.v1[Len(e.v1)]

High(i, x) == In2(E(i, x)) # 0
AllHigh(a, b, x) == \A q \in a .. b : High(q, x)
RisingEdge(i, x) == High(i, x) /\ (i = 1 \/ ~High(i - 1, x))
FallingEdge(i, x) == i > 1 /\ ~High(i, x) /\ High(i - 1, x)

\* pass i is the evaluation after the timer of node x fired
Fired(i, x) == hist[i].cause = "timer" /\ hist[i].fired = x
NoFire(a, b, x) == \A q \in a .. b : ~Fired(q, x)

Pending(ts, x) == \E t \in ts : t.fn = "on_delay" /\ t.dat = x
TimerSet(ts, x, wait) == [fn |-> "on_delay", dat |-> x, wait |-> wait] \in ts

Passes == 1 .. Len(hist)

(***************************************************************************)
(* C5: ondelay.  From the pass that sees the input rise, with the timer    *)
(* set to the delay operand, the output is 0 on every pass until the timer *)
(* of the node fires; while the input is seen high the timer stays         *)
(* pending, and when it fires with the input still high the output is 1 on *)
(* the pass after it and on every later pass while the input stays high.   *)
(***************************************************************************)
C5_OnDelay ==
    \A x \in NodesOf({<<"o", "n", "d", "e", "l", "a", "y">>}) : \A i \in Passes :
        RisingEdge(i, x) =>
            /\ TimerSet(E(i, x).t1, x, Delay(E(i, x)))
            /\ \A j \in i .. Len(hist) :
                  /\ NoFire(i + 1, j, x) => Out(E(j, x)) = Num(0)
                  /\ (NoFire(i + 1, j, x) /\ AllHigh(i, j, x)) => Pending(E(j, x).t1, x)
                  /\ (j > i /\ Fired(j, x) /\ NoFire(i + 1, j - 1, x) /\ AllHigh(i, j - 1, x))
                        => \A l \in j .. Len(hist) :
                               AllHigh(j, l, x) => Out(E(l, x)) = Num(1)

\* input high, high again, the timer fires, input still high: 0, 0, 1, 1
C5_Witness ==
    /\ cstr = Join(<<<<"$", "{", "a", "}">>, <<"5">>, <<"o", "n", "d", "e", "l", "a", "y">>>>)
    /\ Len(hist) = 4
    /\ \A i \in 1 .. 4 : hist[i].env[<<"a">>] \in {Num(1), Num(2)}
    /\ hist[1].cause = "message" /\ hist[2].cause = "message"
    /\ hist[3].cause = "timer" /\ hist[4].cause = "message"
    /\ <<st.v, hist[1].log[3].v1, hist[2].log[3].v1, hist[3].log[3].v1>>
          = <<<<Num(1)>>, <<Num(0)>>, <<Num(0)>>, <<Num(1)>>>>
    /\ TimerSet(hist[1].log[3].t1, root + 2, Num(5))

(***************************************************************************)
(* C6: ondelay, cancelled.  A pass that sees the input low after a rising  *)
(* edge whose timer has not fired removes the pending timer and gives 0;   *)
(* the output stays 0 until a timer of the node fires, and none fires      *)
(* before a new rising edge.  The latched output bit of an ondelay node is *)
(* set only while its input bit is set.                                    *)
(***************************************************************************)
C6_OnDelayCancel ==
    /\ \A x \in DOMAIN heap :
          heap[x].run = "rpn_do_ondelay" =>
              (BitAnd(heap[x].cookie, 2) # 0 => BitAnd(heap[x].cookie, 1) # 0)
    /\ \A x \in NodesOf({<<"o", "n", "d", "e", "l", "a", "y">>}) : \A i \in Passes : \A j \in (i + 1) .. Len(hist) :
          (/\ RisingEdge(i, x)
           /\ AllHigh(i, j - 1, x)
           /\ ~High(j, x)
           /\ NoFire(i + 1, j, x))
          => /\ Pending(E(j, x).t0, x)
             /\ ~Pending(E(j, x).t1, x)
             /\ Out(E(j, x)) = Num(0)
             /\ \A l \in j .. Len(hist) :
                   NoFire(j + 1, l, x) => Out(E(l, x)) = Num(0)
             /\ \A l \in (j + 1) .. Len(hist) :
                   Fired(l, x) => \E r \in (j + 1) .. (l - 1) : RisingEdge(r, x)

\* the input rose, fell before the timer fired, and rose again
C6_Witness ==
    /\ cstr = Join(<<<<"$", "{", "a", "}">>, <<"5">>, <<"o", "n", "d", "e", "l", "a", "y">>>>)
    /\ Len(hist) = 3
    /\ High(1, root + 2) /\ ~High(2, root + 2) /\ High(3, root + 2)
    /\ Pending(E(2, root + 2).t0, root + 2)
    /\ ~Pending(E(2, root + 2).t1, root + 2)
    /\ Pending(timers, root + 2)

(***************************************************************************)
(* C7: offdelay.  The output is 1 on every pass whose input, truncated to *)
(* an integer as the operator reads it, is nonzero.                        *)
(* From the pass that sees the input fall, with the timer set to the delay *)
(* operand, the output stays 1 until the timer of the node fires, and is 0 *)
(* on the pass after it when the input is still low.  A rising edge        *)
(* removes the pending timer, and no timer of the node fires after a pass  *)
(* that saw the input high.                                                *)
(***************************************************************************)
C7_OffDelay ==
    \A x \in NodesOf({<<"o", "f", "f", "d", "e", "l", "a", "y">>}) : \A i \in Passes :
        /\ High(i, x) => Out(E(i, x)) = Num(1)
        /\ FallingEdge(i, x) =>
              /\ TimerSet(E(i, x).t1, x, Delay(E(i, x)))
              /\ \A j \in i .. Len(hist) :
                    /\ NoFire(i + 1, j, x) => Out(E(j, x)) = Num(1)
                    /\ (j > i /\ Fired(j, x) /\ NoFire(i + 1, j - 1, x) /\ ~High(j, x))
                          => Out(E(j, x)) = Num(0)
        /\ (RisingEdge(i, x) /\ Pending(E(i, x).t0, x)) => ~Pending(E(i, x).t1, x)
        /\ (i > 1 /\ Fired(i, x)) => ~High(i - 1, x)

\* the input as it stands on the stack, before the operator truncates it
RawHigh(i, x) == E(i, x).v0[Len(E(i, x).v0) - 1] # Num(0)

\* C7 as first stated: the output is 1 on every pass whose input is nonzero,
\* a fraction below one included
C7_OffDelayNonzero ==
    \A x \in NodesOf({<<"o", "f", "f", "d", "e", "l", "a", "y">>}) : \A i \in Passes :
        RawHigh(i, x) => Out(E(i, x)) = Num(1)

\* input high, low, high again before the timer fires, low, then the timer
\* fires: 1, 1, 1, 1, 0
C7_Witness ==
    /\ cstr = Join(<<<<"$", "{", "a", "}">>, <<"3">>, <<"o", "f", "f", "d", "e", "l", "a", "y">>>>)
    /\ Len(hist) = 5
    /\ High(1, root + 2) /\ FallingEdge(2, root + 2)
    /\ TimerSet(E(2, root + 2).t1, root + 2, Num(3))
    /\ RisingEdge(3, root + 2)
    /\ Pending(E(3, root + 2).t0, root + 2) /\ ~Pending(E(3, root + 2).t1, root + 2)
    /\ FallingEdge(4, root + 2) /\ Fired(5, root + 2)
    /\ [i \in 1 .. 5 |-> Out(E(i, root + 2))]
          = <<Num(1), Num(1), Num(1), Num(1), Num(0)>>

(***************************************************************************)
(* C8: pulse.  The pass that sees the input rise gives 1 and sets the      *)
(* timer to the delay operand; when the timer fires with the input high    *)
(* all the while, the output is 0 on the pass after it and on every later  *)
(* pass while the input stays high.                                        *)
(***************************************************************************)
C8_Pulse ==
    \A x \in NodesOf({<<"p", "u", "l", "s", "e">>}) : \A i \in Passes :
        RisingEdge(i, x) =>
            /\ Out(E(i, x)) = Num(1)
            /\ TimerSet(E(i, x).t1, x, Delay(E(i, x)))
            /\ \A k \in (i + 1) .. Len(hist) :
                  (Fired(k, x) /\ AllHigh(i, k, x) /\ NoFire(i + 1, k - 1, x))
                  => \A l \in k .. Len(hist) :
                         AllHigh(k, l, x) => Out(E(l, x)) = Num(0)

\* input high, the timer fires, input still high: 1, 0, 0
C8_Witness ==
    /\ cstr = Join(<<<<"$", "{", "a", "}">>, <<"2">>, <<"p", "u", "l", "s", "e">>>>)
    /\ Len(hist) = 3
    /\ AllHigh(1, 3, root + 2)
    /\ TimerSet(E(1, root + 2).t1, root + 2, Num(2))
    /\ Fired(2, root + 2)
    /\ hist[3].cause = "message"
    /\ <<Out(E(1, root + 2)), Out(E(2, root + 2)), Out(E(3, root + 2))>>
          = <<Num(1), Num(0), Num(0)>>

(***************************************************************************)
(* C9: rising and pushed.  The output of a pass is 1 exactly when the      *)
(* truncated input of the pass is nonzero and that of the previous pass of *)
(* the node was 0, a new node counting as 0.                               *)
(***************************************************************************)
C9_Rising ==
    \A x \in NodesOf({<<"r", "i", "s", "i", "n", "g">>, <<"p", "u", "s", "h", "e", "d">>}) : \A i \in Passes :
        Out(E(i, x)) = Num(Bool(/\ In1(E(i, x)) # 0
                                /\ (i = 1 \/ In1(E(i - 1, x)) = 0)))

\* inputs 0, 1, 1, 0, 1 of "pushed" have given 0, 1, 0, 0, 1
C9_Witness ==
    /\ cstr = Join(<<<<"$", "{", "a", "}">>, <<"p", "u", "s", "h", "e", "d">>>>)
    /\ Len(hist) = 5
    /\ [i \in 1 .. 5 |-> hist[i].env[<<"a">>]]
          = <<Num(0), Num(1), Num(1), Num(0), Num(1)>>
    /\ [i \in 1 .. 5 |-> Out(E(i, root + 1))]
          = <<Num(0), Num(1), Num(0), Num(0), Num(1)>>

(***************************************************************************)
(* C10: edge and changed.  The output of a pass is 1 exactly when the      *)
(* truncated input differs from the value the node stored on its previous  *)
(* pass, 0 for a new node, and the node then stores the truncated input.   *)
(***************************************************************************)
C10_Edge ==
    \A x \in NodesOf({<<"e", "d", "g", "e">>, <<"c", "h", "a", "n", "g", "e", "d">>}) : \A i \in Passes :
        LET prev == IF i = 1 THEN 0 ELSE In1(E(i - 1, x))
        IN  /\ E(i, x).c0 = prev
            /\ Out(E(i, x)) = Num(Bool(In1(E(i, x)) # prev))
            /\ E(i, x).c1 = In1(E(i, x))
            /\ (i = Len(hist)) => heap[x].cookie = In1(E(i, x))

\* inputs 1, 2, 2, 1/2, 0 of "changed" have given 1, 1, 0, 1, 0
C10_Witness ==
    /\ cstr = Join(<<<<"$", "{", "a", "}">>, <<"c", "h", "a", "n", "g", "e", "d">>>>)
    /\ Len(hist) = 5
    /\ [i \in 1 .. 5 |-> hist[i].env[<<"a">>]]
          = <<Num(1), Num(2), Num(2), Norm(1, 2), Num(0)>>
    /\ [i \in 1 .. 5 |-> Out(E(i, root + 1))]
          = <<Num(1), Num(1), Num(0), Num(1), Num(0)>>

(***************************************************************************)
(* C11: after the owner has torn its chain down, no on_delay timer of a    *)
(* node of the freed chain is pending in the scheduler.                    *)
(***************************************************************************)
C11_TeardownRemovesTimers ==
    pc = "freed" =>
        \A t \in timers : t.fn = "on_delay" => t.dat \in DOMAIN heap

(***************************************************************************)
(* C12: the key under which a timed operator registers its callback.       *)
(* ondelay, offdelay and pulse add and remove only the timer of on_delay   *)
(* with their own node as argument, so the pending timer of another node   *)
(* stays; timeofday and dayofweek register rpn_run_again with the owner    *)
(* handle as argument, a key the clock nodes of one owner share; at any    *)
(* time at most one timer is pending per callback and argument.            *)
(***************************************************************************)
DelayOps == {"rpn_do_ondelay", "rpn_do_offdelay", "rpn_do_pulse"}
ClockOps == {"rpn_do_timeofday", "rpn_do_dayofweek"}

SameKey(t, fn, dat) == t.fn = fn /\ t.dat = dat

\* entry e changed no timer but the one of callback fn and argument dat
OnlyKey(e, fn, dat) ==
    /\ \A t \in e.t0 : ~SameKey(t, fn, dat) => t \in e.t1
    /\ \A t \in e.t1 : ~SameKey(t, fn, dat) => t \in e.t0

OnePerKey(ts) == \A t \in ts : \A u \in ts : SameKey(u, t.fn, t.dat) => u = t

C12_TimerKeys ==
    /\ OnePerKey(timers)
    /\ \A k \in Passes : \A i \in 1 .. Len(hist[k].log) :
          LET e == hist[k].log[i]
          IN  /\ e.run \in DelayOps => OnlyKey(e, "on_delay", e.rpn)
              /\ e.run \in ClockOps =>
                    /\ OnlyKey(e, "rpn_run_again", owner)
                    /\ \E t \in e.t1 : SameKey(t, "rpn_run_again", owner)
              /\ e.run \notin DelayOps \cup ClockOps => e.t1 = e.t0

\* C12 as first stated: a timed operator that registers a callback
\* registers it with its own node in the key
C12_KeyHoldsOwnNode ==
    \A k \in Passes : \A i \in 1 .. Len(hist[k].log) :
        LET e == hist[k].log[i]
        IN  (e.run \in DelayOps \cup ClockOps /\ e.ret = 0) =>
                \A t \in e.t1 : (t \notin e.t0 => t.dat = e.rpn)

\* the ondelay and the pulse node of one chain both have their timer
\* pending, each under its own node
C12_Witness ==
    /\ \E t \in timers : \E u \in timers :
          /\ t.fn = "on_delay" /\ u.fn = "on_delay" /\ t.dat # u.dat
          /\ heap[t.dat].run = "rpn_do_ondelay"
          /\ heap[u.dat].run = "rpn_do_pulse"
    /\ Len(hist) >= 1

(***************************************************************************)
(* C13: when the on_delay timer of a node fires, the pass that follows     *)
(* starts at the first node of the chain and runs the nodes in order, it   *)
(* finds the output bit (bit 1) of the node's cookie already toggled, and  *)
(* when the node sees the same input level as on the pass before, its      *)
(* output is that bit.                                                     *)
(***************************************************************************)
OutputBit(cookie) == Num(Bool(BitAnd(cookie, 2) # 0))

C13_OnDelayThenRunAgain ==
    \A k \in Passes :
        (hist[k].cause = "timer" /\ hist[k].fired # NULL) =>
            LET x == hist[k].fired
            IN  /\ k > 1
                /\ hist[k].log # <<>>
                /\ hist[k].log[1].rpn = root
                /\ PassInOrder(hist[k])
                /\ Ran(hist[k], x) /\ Ran(hist[k - 1], x)
                /\ E(k, x).c0 = BitXor(E(k - 1, x).c1, 2)
                /\ (High(k, x) <=> High(k - 1, x)) =>
                       /\ E(k, x).c1 = E(k, x).c0
                       /\ Out(E(k, x)) = OutputBit(E(k, x).c0)

\* the timer of an offdelay node that is not the first of its chain fires
\* with the output bit set: the pass after it gives 0
C13_Witness ==
    \E k \in Passes :
        /\ hist[k].cause = "timer" /\ hist[k].fired # NULL
        /\ hist[k].fired # root
        /\ E(k, hist[k].fired).run = "rpn_do_offdelay"
        /\ BitAnd(E(k - 1, hist[k].fired).c1, 2) # 0
        /\ ~High(k, hist[k].fired) /\ ~High(k - 1, hist[k].fired)
        /\ Out(E(k, hist[k].fired)) = Num(0)

(***************************************************************************)
(* C14: a literal a<sep1>b<sep2>c without sign compiles to one constant    *)
(* node of value a + b/60 + c/3600, a missing part counting as 0.          *)
(***************************************************************************)
\* the value the parts of literal l stand for
Sexagesimal(l) ==
    RAdd(l.a.val, RAdd(RDiv(l.b.val, Num(60)), RDiv(l.c.val, Num(3600))))

\* the chain is one constant node of value v, the only node allocated
OneConstant(v) ==
    /\ root # NULL
    /\ DOMAIN heap = {root}
    /\ heap[root].run = "rpn_do_const"
    /\ heap[root].next = NULL
    /\ heap[root].value = v

C14_Sexagesimal ==
    \A l \in Shapes :
        (pc = "parsed" /\ cstr = Literal(<<>>, l)) =>
            /\ OneConstant(Sexagesimal(l))
            /\ \A k \in Passes : hist[k].ret = 0 /\ st.v = <<Sexagesimal(l)>>

\* "1h30m" compiled to 1.5 and ran
C14_Witness ==
    /\ cstr = <<"1", "h", "3", "0", "m">>
    /\ OneConstant(Norm(3, 2))
    /\ Len(hist) = 1
    /\ st.v = <<Norm(3, 2)>>

(***************************************************************************)
(* C15: a literal with a leading minus sign compiles to the negation of    *)
(* the value of the literal without the sign: "-a:b:c" is                  *)
(* -(a + b/60 + c/3600).                                                   *)
(***************************************************************************)
C15_NegativeSexagesimal ==
    \A l \in Shapes :
        (pc = "parsed" /\ cstr = Literal(<<"-">>, l)) =>
            OneConstant(RNeg(Sexagesimal(l)))

(***************************************************************************)
(* C16: inrange replaces the three top elements x, lo, hi by one boolean.  *)
(* When lo < hi it is 1 exactly when lo <= x <= hi; when lo > hi the range *)
(* wraps and it is 1 exactly when x >= lo or x <= hi.                      *)
(***************************************************************************)
\* the three operands entry e found and the element it left for them
Top3(e) == SubSeq(e.v0, Len(e.v0) - 2, Len(e.v0))

InRangeResult(e, x, lo, hi) ==
    /\ Len(e.v1) = Len(e.v0) - 2
    /\ SubSeq(e.v1, 1, Len(e.v1) - 1) = SubSeq(e.v0, 1, Len(e.v0) - 3)
    /\ Out(e) \in {Num(0), Num(1)}
    /\ RLt(lo, hi) => (Out(e) = Num(1) <=> (RLe(lo, x) /\ RLe(x, hi)))
    /\ RLt(hi, lo) => (Out(e) = Num(1) <=> (RLe(lo, x) \/ RLe(x, hi)))

C16_InRange ==
    \A k \in Passes : \A i \in 1 .. Len(hist[k].log) :
        LET e == hist[k].log[i]
        IN  (e.run = "rpn_do_inrange" /\ e.ret >= 0) =>
                InRangeResult(e, Top3(e)[1], Top3(e)[2], Top3(e)[3])

\* bounds (22, 6): input 23 gave 1, then input 10 gave 0
C16_Witness ==
    /\ cstr = Join(<<<<"$", "{", "a", "}">>, <<"2", "2">>, <<"6">>,
                     <<"i", "n", "r", "a", "n", "g", "e">>>>)
    /\ Len(hist) = 2
    /\ hist[1].env[<<"a">>] = Num(23) /\ hist[1].log[4].v1 = <<Num(1)>>
    /\ hist[2].env[<<"a">>] = Num(10) /\ hist[2].log[4].v1 = <<Num(0)>>

(***************************************************************************)
(* C17: a chain without stateful operator, run twice on the same input     *)
(* values with the stack reset in between, gives the same return code and  *)
(* the same final stack both times, and registers no timer.                *)
(***************************************************************************)
StatefulOps ==
    DelayOps \cup ClockOps \cup {"rpn_do_edge", "rpn_do_rising", "rpn_do_falling"}

Stateless == \A x \in DOMAIN heap : heap[x].run \notin StatefulOps

\* the stack pass p left
FinalStack(p) == IF p.log = <<>> THEN <<>> ELSE p.log[Len(p.log)].v1

C17_Idempotence ==
    (pc = "parsed" /\ root # NULL /\ Stateless) =>
        /\ timers = {}
        /\ hist # <<>> => st.v = FinalStack(hist[Len(hist)])
        /\ \A k \in Passes : \A l \in Passes :
              hist[k].env = hist[l].env =>
                  /\ hist[k].ret = hist[l].ret
                  /\ FinalStack(hist[k]) = FinalStack(hist[l])

\* "1 ${a} +" ran twice with a = 1 and gave 2 both times
C17_Witness ==
    /\ cstr = Join(<<<<"1">>, <<"$", "{", "a", "}">>, <<"+">>>>)
    /\ Len(hist) = 2
    /\ hist[1].env[<<"a">>] = Num(1) /\ hist[2].env[<<"a">>] = Num(1)
    /\ FinalStack(hist[1]) = <<Num(2)>>
    /\ st.v = <<Num(2)>>

(***************************************************************************)
(* C18: the chain rpn_parse returns has one node per token, linked in      *)
(* token order, and every node stores the owner handle given to rpn_parse, *)
(* whether a constant, a ${...} reference or a keyword made it.            *)
(***************************************************************************)
\* node n is what token tok compiles to
NodeOfToken(n, tok) ==
    IF IsNumTok(tok) THEN n.run = "rpn_do_const"
    ELSE IF IsEnvTok(tok) THEN n.run = "rpn_do_env" /\ n.topic = <<SubSeq(tok, 3, Len(tok) - 1)>>
    ELSE do_lookup(tok) # 0 /\ n.run = lookups[do_lookup(tok)].run

ChainOfTokens(chain, toks) ==
    /\ Len(chain) = Len(toks)
    /\ DOMAIN heap = {chain[i] : i \in 1 .. Len(chain)}
    /\ \A i \in 1 .. Len(chain) : \A j \in 1 .. Len(chain) :
          chain[i] = chain[j] => i = j
    /\ \A i \in 1 .. Len(chain) :
          /\ NodeOfToken(heap[chain[i]], toks[i])
          /\ heap[chain[i]].dat = owner

C18_OwnerInEveryNode ==
    (pc = "parsed" /\ root # NULL) =>
        /\ owner \in Owners
        /\ ChainOfTokens(Chain(heap, root), strtok(cstr))

\* a constant, a reference and a keyword compiled for the second owner
C18_Witness ==
    /\ pc = "parsed"
    /\ owner = 102
    /\ cstr = Join(<<<<"1">>, <<"$", "{", "a", "}">>, <<"+">>>>)
    /\ Chain(heap, root) = <<root, root + 1, root + 2>>
    /\ heap[root + 2].run = "rpn_do_plus" /\ heap[root + 2].dat = 102

(***************************************************************************)
(* C19: a pass or a timer callback changes no node but in its cookie: the  *)
(* operation, the constant, the topic and options, the owner and the link  *)
(* to the next node stay, no node is added or freed, and the cookie of a   *)
(* node of a stateless operator stays at its value.                        *)
(***************************************************************************)
\* the operators that write the cookie of their node
CookieOps == DelayOps \cup {"rpn_do_edge", "rpn_do_rising", "rpn_do_falling"}

FrameStep ==
    (pc = "parsed" /\ pc' = "parsed") =>
        /\ root' = root
        /\ DOMAIN heap' = DOMAIN heap
        /\ \A x \in DOMAIN heap :
              /\ heap'[x] = [heap[x] EXCEPT !.cookie = heap'[x].cookie]
              /\ heap[x].run \notin CookieOps => heap'[x].cookie = heap[x].cookie

C19_Frame == [][FrameStep]_vars

\* a timer callback and passes have changed the cookie of a node of a chain
\* that holds stateless nodes too
C19_Witness ==
    /\ \E k \in Passes : hist[k].cause = "timer" /\ hist[k].fired # NULL
    /\ \E x \in DOMAIN heap : heap[x].run = "rpn_do_offdelay" /\ heap[x].cookie # 0
    /\ \E x \in DOMAIN heap : heap[x].run = "rpn_do_pulse" /\ heap[x].cookie # 0
    /\ \E x \in DOMAIN heap : heap[x].run = "rpn_do_inrange" /\ heap[x].cookie = 0
    /\ \E x \in DOMAIN heap : heap[x].run = "rpn_do_const" /\ heap[x].value = Num(3)

(***************************************************************************)
(* C20: a timeofday or dayofweek node pushes one value and registers the   *)
(* owner's re-evaluation with a delay of 60 - s seconds, s the second of   *)
(* the minute; s = 0 or s outside 0 .. 59 gives 60, so the delay is an     *)
(* integer of 1 .. 60.                                                     *)
(***************************************************************************)
SecondsLeft(s) == IF s \in 1 .. 59 THEN 60 - s ELSE 60

\* the timers of the owner's re-evaluation pending after entry e
RunAgain(e) == {t \in e.t1 : SameKey(t, "rpn_run_again", owner)}

C20_NextMinute ==
    \A k \in Passes : \A i \in 1 .. Len(hist[k].log) :
        LET e == hist[k].log[i]
        IN  e.run \in ClockOps =>
                /\ e.ret = 0
                /\ Len(e.v1) = Len(e.v0) + 1
                /\ SubSeq(e.v1, 1, Len(e.v0)) = e.v0
                /\ RunAgain(e) = {[fn |-> "rpn_run_again", dat |-> owner,
                                   wait |-> Num(SecondsLeft(hist[k].tm.tm_sec))]}
                /\ \A t \in RunAgain(e) :
                      t.wait.d = 1 /\ t.wait.n \in 1 .. 60

\* a timeofday node ran at second 60 and at second 59: delays 60 and 1
C20_Witness ==
    /\ cstr = <<"t", "i", "m", "e", "o", "f", "d", "a", "y">>
    /\ Len(hist) = 2
    /\ hist[1].tm.tm_sec = 60 /\ hist[2].tm.tm_sec = 59
    /\ hist[1].log[1].t1 = {[fn |-> "rpn_run_again", dat |-> owner, wait |-> Num(60)]}
    /\ timers = {[fn |-> "rpn_run_again", dat |-> owner, wait |-> Num(1)]}
    /\ Len(st.v) = 1

(***************************************************************************)
(* C21: the length of the stack is never negative and never above its      *)
(* capacity; the capacity never shrinks and grows, by 16 elements, exactly *)
(* when a push finds the length equal to the capacity; rpn_stack_reset     *)
(* sets the length to 0 and leaves the capacity as it is.                  *)
(***************************************************************************)
StackBounds(s) == s.n = Len(s.v) /\ s.n >= 0 /\ s.n <= s.s

\* the step added an element to the stack
Pushed == st'.n = st.n + 1

StackStep ==
    /\ StackBounds(st) /\ StackBounds(st')
    /\ st'.s \in {st.s, st.s + StackChunk}
    /\ st'.s = st.s + StackChunk <=> (Pushed /\ st.n = st.s)
    /\ pc' = "reset" => (st'.n = 0 /\ st'.s = st.s)

C21_StackInvariant == [][StackStep]_vars

\* the stack was filled beyond its second chunk of storage and then reset
C21_Witness ==
    /\ pc = "reset"
    /\ st.n = 0
    /\ st.s = 3 * StackChunk

(***************************************************************************)
(* C22: a token that starts with a digit, or with + or - and then a digit, *)
(* compiles to a constant node whatever follows and is not looked up as a  *)
(* keyword; a token that is just + or - compiles to the arithmetic         *)
(* operator; other tokens are references or keywords, or end the parse.    *)
(***************************************************************************)
StartsWithNumber(tok) ==
    \/ Head(tok) \in digits
    \/ Len(tok) >= 2 /\ Head(tok) \in {"+", "-"} /\ Head(Tail(tok)) \in digits

\* the operation token tok compiles to, "" when it does not compile
RunOfToken(tok) ==
    IF StartsWithNumber(tok) THEN "rpn_do_const"
    ELSE IF tok = <<"+">> THEN "rpn_do_plus"
    ELSE IF tok = <<"-">> THEN "rpn_do_minus"
    ELSE IF tok = <<"d", "u", "p">> THEN "rpn_do_dup"
    ELSE IF tok = <<"$", "{", "a", "}">> THEN "rpn_do_env"
    ELSE ""

TokensCompiled(chain, toks) ==
    IF \E i \in 1 .. Len(toks) : RunOfToken(toks[i]) = ""
    THEN root = NULL
    ELSE /\ Len(chain) = Len(toks)
         /\ \A i \in 1 .. Len(toks) : heap[chain[i]].run = RunOfToken(toks[i])

C22_TokenPrecedence ==
    (pc = "parsed" /\ cstr # <<>>) =>
        TokensCompiled(Chain(heap, root), strtok(cstr))

\* "3+ -2 -": two constants and the operator, giving 3 - (-2)
C22_Witness ==
    /\ cstr = Join(<<<<"3", "+">>, <<"-", "2">>, <<"-">>>>)
    /\ Len(hist) = 1
    /\ heap[root].run = "rpn_do_const" /\ heap[root].value = Num(3)
    /\ heap[root + 1].run = "rpn_do_const" /\ heap[root + 1].value = Num(-2)
    /\ heap[root + 2].run = "rpn_do_minus"
    /\ st.v = <<Num(5)>>

(***************************************************************************)
(* C23: a seconds separator counts only after a minutes part, so a literal *)
(* whose first number is directly followed by m or " compiles to the first *)
(* number alone.                                                           *)
(***************************************************************************)
C23_SecondsNeedMinutes ==
    \A a \in FirstParts : \A s2 \in SecondSigns : \A c \in SecondParts :
        (pc = "parsed" /\ cstr = a.str \o s2 \o c.str) => OneConstant(a.val)

\* what the parser makes of a<sep2>c: the seconds are added
DirectSecondsTaken ==
    \A a \in FirstParts : \A s2 \in SecondSigns : \A c \in SecondParts :
        (pc = "parsed" /\ cstr = a.str \o s2 \o c.str) =>
            OneConstant(RAdd(a.val, RDiv(c.val, Num(3600))))

(***************************************************************************)
(* C24: inrange with equal bounds lo = hi takes the wrap-around branch and *)
(* gives 1 for every x that is a number, not only for x = lo.  For x NaN   *)
(* both comparisons of the branch are false and it gives 0.                *)
(***************************************************************************)
\* entry e is an inrange that found equal bounds
EqualBounds(e) ==
    e.run = "rpn_do_inrange" /\ e.ret >= 0 /\ Top3(e)[2] = Top3(e)[3]

C24_EqualBounds ==
    \A k \in Passes : \A i \in 1 .. Len(hist[k].log) :
        (EqualBounds(hist[k].log[i]) /\ Top3(hist[k].log[i])[1] # NaN) =>
            Out(hist[k].log[i]) = Num(1)

\* as stated: 1 for every x
C24_EqualBoundsAlwaysOne ==
    \A k \in Passes : \A i \in 1 .. Len(hist[k].log) :
        EqualBounds(hist[k].log[i]) => Out(hist[k].log[i]) = Num(1)

\* bounds (6, 6): inputs 10 and -1, off the bound on either side, gave 1
C24_Witness ==
    /\ cstr = Join(<<<<"$", "{", "a", "}">>, <<"6">>, <<"6">>,
                     <<"i", "n", "r", "a", "n", "g", "e">>>>)
    /\ Len(hist) = 2
    /\ hist[1].env[<<"a">>] = Num(10) /\ hist[1].log[4].v1 = <<Num(1)>>
    /\ hist[2].env[<<"a">>] = Num(-1) /\ hist[2].log[4].v1 = <<Num(1)>>

(***************************************************************************)
(* C25: < and > replace the two top elements a, b by 1 when a is below     *)
(* (above) b truncated toward zero, and by 0 otherwise; only the right     *)
(* operand is truncated: "2 2.5 <" gives 0 and "2.5 2 >" gives 1.          *)
(***************************************************************************)
\* x without its fraction
TowardZero(x) ==
    Num(IF x.n >= 0 THEN x.n \div x.d ELSE -((-x.n) \div x.d))

\* entry e replaced its two operands by the one element out
Replaced2(e, out) ==
    e.v1 = SubSeq(e.v0, 1, Len(e.v0) - 2) \o <<out>>

Compared(e, a, b) ==
    /\ e.run = "rpn_do_lt" => Replaced2(e, Num(Bool(RLt(a, TowardZero(b)))))
    /\ e.run = "rpn_do_gt" => Replaced2(e, Num(Bool(RLt(TowardZero(b), a))))

C25_Compare ==
    \A k \in Passes : \A i \in 1 .. Len(hist[k].log) :
        (hist[k].log[i].run \in {"rpn_do_lt", "rpn_do_gt"} /\ hist[k].log[i].ret >= 0) =>
            Compared(hist[k].log[i],
                     hist[k].log[i].v0[Len(hist[k].log[i].v0) - 1],
                     hist[k].log[i].v0[Len(hist[k].log[i].v0)])

\* "2 2.5 <" gave 0
C25_Witness ==
    /\ cstr = Join(<<<<"2">>, <<"2", ".", "5">>, <<"<">>>>)
    /\ Len(hist) = 1
    /\ hist[1].log[3].run = "rpn_do_lt"
    /\ hist[1].log[3].v0 = <<Num(2), Norm(5, 2)>>
    /\ st.v = <<Num(0)>>

\* "2.5 2 >" gave 1
GreaterSeen ==
    /\ cstr = Join(<<<<"2", ".", "5">>, <<"2">>, <<">">>>>)
    /\ Len(hist) = 1
    /\ st.v = <<Num(1)>>

(***************************************************************************)
(* C26: the value written by &&, ||, !, <, >, inrange, edge, rising,       *)
(* falling, ondelay, offdelay and pulse is exactly 0 or 1 for every input; *)
(* &&, || and ! take an operand for true exactly when its truncation       *)
(* toward zero is not zero, so a magnitude below 1 counts as false.        *)
(***************************************************************************)
IsTrue(x) == TowardZero(x) # Num(0)

Canonical(e) ==
    /\ Out(e) \in {Num(0), Num(1)}
    /\ e.run = "rpn_do_booland" =>
          Out(e) = Num(Bool(IsTrue(e.v0[Len(e.v0) - 1]) /\ IsTrue(e.v0[Len(e.v0)])))
    /\ e.run = "rpn_do_boolor" =>
          Out(e) = Num(Bool(IsTrue(e.v0[Len(e.v0) - 1]) \/ IsTrue(e.v0[Len(e.v0)])))
    /\ e.run = "rpn_do_boolnot" =>
          Out(e) = Num(Bool(~IsTrue(e.v0[Len(e.v0)])))

C26_CanonicalBooleans ==
    \A k \in Passes : \A i \in 1 .. Len(hist[k].log) :
        (hist[k].log[i].run \in BoolOps /\ hist[k].log[i].ret >= 0) =>
            Canonical(hist[k].log[i])

\* "2 ${a} &&" with the input at -1/2 gave 0
C26_Witness ==
    /\ cstr = Join(<<<<"2">>, <<"$", "{", "a", "}">>, <<"&", "&">>>>)
    /\ Len(hist) = 1
    /\ hist[1].log[3].run = "rpn_do_booland"
    /\ hist[1].log[3].v0 = <<Num(2), Norm(-1, 2)>>
    /\ st.v = <<Num(0)>>

(***************************************************************************)
(* C27: on_delay toggles the output bit, and it always moves it the        *)
(* intended way: while a timer is pending for an ondelay node the node has *)
(* input bit 1 and output bit 0, while one is pending for an offdelay or   *)
(* pulse node the node has output bit 1; so a firing never turns an        *)
(* ondelay output off nor an offdelay or pulse output on.                  *)
(***************************************************************************)
InputSet(cookie) == BitAnd(cookie, 1) # 0
OutputSet(cookie) == BitAnd(cookie, 2) # 0

\* cookie is a state in which a node of operation run may have its timer
ArmedState(run, cookie) ==
    /\ run = "rpn_do_ondelay" => (InputSet(cookie) /\ ~OutputSet(cookie))
    /\ run \in {"rpn_do_offdelay", "rpn_do_pulse"} => OutputSet(cookie)

\* every node with a pending timer in heap h and timers ts
ArmedNodes(h, ts) ==
    \A t \in ts : t.fn = "on_delay" => ArmedState(h[t.dat].run, h[t.dat].cookie)

\* every timed node of pass p, when it had run
ArmedEntries(p) ==
    \A i \in 1 .. Len(p.log) :
        (p.log[i].run \in DelayOps /\ Pending(p.log[i].t1, p.log[i].rpn)) =>
            ArmedState(p.log[i].run, p.log[i].c1)

\* the cookie on_delay left in node x before pass p ran
Toggled(p, x) == IF Ran(p, x) THEN Entry(p, x).c0 ELSE heap'[x].cookie

\* the firing of the timer of node x, followed by pass p
Firing(p, x) ==
    /\ heap[x].run = "rpn_do_ondelay" =>
          (~OutputSet(heap[x].cookie) /\ OutputSet(Toggled(p, x)))
    /\ heap[x].run \in {"rpn_do_offdelay", "rpn_do_pulse"} =>
          (OutputSet(heap[x].cookie) /\ ~OutputSet(Toggled(p, x)))

TimerStep ==
    (pc = "parsed" /\ pc' = "parsed") =>
        /\ ArmedNodes(heap, timers)
        /\ ArmedNodes(heap', timers')
        /\ ArmedEntries(hist'[Len(hist')])
        /\ hist'[Len(hist')].fired # NULL =>
              Firing(hist'[Len(hist')], hist'[Len(hist')].fired)

C27_TimerDirection == [][TimerStep]_vars

\* the timer of the ondelay node has fired and set its output while the
\* timer of the pulse node of the same chain is pending with its output set
C27_Witness ==
    /\ Len(hist) = 2
    /\ hist[2].cause = "timer"
    /\ hist[2].fired # NULL
    /\ heap[hist[2].fired].run = "rpn_do_ondelay"
    /\ heap[hist[2].fired].cookie = 3
    /\ Entry(hist[1], hist[2].fired).c1 = 1
    /\ \E t \in timers : /\ t.fn = "on_delay"
                          /\ heap[t.dat].run = "rpn_do_pulse"
                          /\ heap[t.dat].cookie = 3

(***************************************************************************)
(* C28: when a pulse node sees its input fall before its timer has fired,  *)
(* the timer is removed and the output bit stays set: the output is 1 with *)
(* no timer pending on that pass and on every later pass while the input   *)
(* stays low.  It is 0 again only after a later rising edge has set a new  *)
(* timer and that timer has fired.                                         *)
(***************************************************************************)
\* pass i of node x saw the input fall while the timer was pending
CancelledAt(i, x) == FallingEdge(i, x) /\ Pending(E(i, x).t0, x)

AllLow(a, b, x) == \A q \in a .. b : ~High(q, x)

\* a rising edge after pass i set a timer that fired before pass j ended
Rearmed(i, j, x) ==
    \E r \in i + 1 .. j : \E f \in r + 1 .. j :
        /\ RisingEdge(r, x)
        /\ Pending(E(r, x).t1, x)
        /\ Fired(f, x)

StaysSet(i, x) ==
    \A j \in i .. Len(hist) :
        /\ AllLow(i, j, x) =>
              (Out(E(j, x)) = Num(1) /\ ~Pending(E(j, x).t1, x))
        /\ Out(E(j, x)) = Num(0) => Rearmed(i, j, x)

C28_PulseCancelled ==
    \A x \in NodesOf({<<"p", "u", "l", "s", "e">>}) : \A i \in Passes :
        CancelledAt(i, x) => StaysSet(i, x)

\* input high, low before the timer fires, low again, high, and then the
\* new timer fires: 1, 1, 1, 1, 0
C28_Witness ==
    /\ cstr = Join(<<<<"$", "{", "a", "}">>, <<"2">>, <<"p", "u", "l", "s", "e">>>>)
    /\ Len(hist) = 5
    /\ \A k \in 1 .. 4 : hist[k].cause = "message" /\ hist[k].log[3].v1 = <<Num(1)>>
    /\ hist[1].log[3].t1 # {}
    /\ hist[2].log[3].c0 = 3 /\ hist[2].log[3].c1 = 2 /\ hist[2].log[3].t1 = {}
    /\ hist[3].log[3].c1 = 2 /\ hist[3].log[3].t1 = {}
    /\ hist[4].log[3].c1 = 3 /\ hist[4].log[3].t1 # {}
    /\ hist[5].cause = "timer" /\ hist[5].log[3].v1 = <<Num(0)>>

(***************************************************************************)
(* C29: rpn_parse of a source without a token, empty or of spaces and tabs *)
(* only, returns NULL and allocates no node, as it does for a source that  *)
(* does not compile; it returns a chain, which then is not empty, exactly  *)
(* when the source has a token and every token of it is recognised.        *)
(***************************************************************************)
NoToken(c) == \A i \in 1 .. Len(c) : c[i] \in {" ", "\t"}

AllRecognised(toks) == \A i \in 1 .. Len(toks) : RunOfToken(toks[i]) # ""

C29_ParseResult ==
    pc = "parsed" =>
        /\ NoToken(cstr) => (root = NULL /\ DOMAIN heap = {})
        /\ root # NULL <=> (~NoToken(cstr) /\ AllRecognised(strtok(cstr)))
        /\ root # NULL => (root \in DOMAIN heap /\ Len(Chain(heap, root)) >= 1)

\* a source of a space, a tab and a space compiled to nothing
C29_Witness ==
    /\ pc = "parsed"
    /\ cstr = <<" ", "\t", " ">>
    /\ root = NULL
    /\ heap = <<>>

\* a token between blanks compiled to a chain of one node
PaddedSeen ==
    /\ pc = "parsed"
    /\ cstr = <<" ", "3", "\t">>
    /\ Chain(heap, root) = <<root>>
    /\ root # NULL

====
